---- MODULE Spec2Model ----
(***************************************************************************)
(* Client-side session state of the Copilot chat GUI: the chat status      *)
(* line merged by timestamp, the staged attachments with their upload and  *)
(* preview-handle lifecycle, and the handlers that clear them.             *)
(*                                                                         *)
(* The repository holds the session logic twice: as hooks (useChatState,   *)
(* useFileUpload, useInput, useDialog) and as the single Chat component    *)
(* (gui/src/Chat.js).  The variable impl says which of the two a run is    *)
(* about; it is chosen in Init and never changes.                          *)
(***************************************************************************)
EXTENDS Integers, Sequences, FiniteSets, TLC

VARIABLES
    impl,           \* "hooks" or "Chat": which implementation runs
    now,            \* reading of window.performance.now(), in clock steps
    chatState,      \* [status, text, prevText, timestamp]
    hist,           \* history: the updateChatState calls made by OnSetChatStatus
    beforeWinner,   \* history: chatState before the latest call whose timestamp was >= all earlier ones
    notifications,  \* list of [id, content]
    attachedFiles,  \* staged attachments, list of [id, name, preview, type]
    uploads,        \* the XMLHttpRequests issued so far, list of records
    timers,         \* pending setTimeout callbacks of uploadFiles, FIFO
    handles,        \* the object URLs created so far: handles[h] = [file, revoked], revoked counts URL.revokeObjectURL(h)
    event,          \* history: the handler that ran last, for onFileUpload and the callbacks of uploadFiles; NoEvent otherwise
    sends,          \* sendMessage invocations in flight, list of [phase, snapshot]
    activating,     \* position of the activateDialog invocation in flight
    finalBy,        \* history: upload whose completion handler last committed a final status line
    recordingState, \* [status]: "off", "on" or "processing"
    recordings,     \* the startRecording invocations so far, list of [phase, inputValue, upload]
    mediaRecorderRef, \* mediaRecorderRef.current: index into recordings, NoRecorder for null
    inputValue,     \* the composer draft, a sequence of characters
    messages,       \* the message list
    isWaitingAnswer,
    uuids,          \* number of ids uuidv4 has produced
    mounted,        \* TRUE while the session root is mounted
    subscriptions,  \* handlers registered on rpcClient, per push channel
    historyCall,    \* position of the getHistory invocation in flight
    callbacks       \* callButtonCallback invocations in flight, list of [phase]

recordingVars == <<recordingState, recordings, mediaRecorderRef>>
inputVars == <<inputValue, messages, isWaitingAnswer>>
sessionVars == <<mounted, subscriptions, historyCall, callbacks>>

vars == <<impl, now, chatState, hist, beforeWinner, notifications, attachedFiles,
          uploads, timers, handles, event, sends, activating, finalBy,
          recordingState, recordings, mediaRecorderRef, inputValue, messages,
          isWaitingAnswer, uuids, mounted, subscriptions, historyCall, callbacks>>

-----------------------------------------------------------------------------
(* Bounds *)

MaxTime == 2            \* clock readings 0..MaxTime
TickNs == 2             \* nanoseconds between two distinct clock readings (> 1)
ClearDelayTicks == 2    \* the 2000 ms of the delayed clear, in clock readings
MaxPushTs == 1          \* largest timestamp a server push carries
MaxCalls == 3           \* updateChatState calls recorded in hist
MaxNotifications == 2
MaxUploads == 2
MaxSends == 2
ProgressTotal == 2      \* event.total of a progress event
MaxRevokeCount == 2     \* revoke counts saturate here
MaxRecordings == 2      \* startRecording invocations that pass the status check
MaxMessages == 2        \* messages appended to the message list
MaxCallbacks == 1       \* callButtonCallback invocations in flight
MaxIds == 3             \* ids uuidv4 produces for addNotification calls

(* Program constants *)

MAX_FILE_SIZE == 10 * 1024 * 1024

-----------------------------------------------------------------------------
(* Values *)

Absent == "undefined"   \* a field that is not supplied (JS undefined)
Null == "null"          \* JS null
NoTimestamp == -1       \* timestamp === undefined
NoHandle == 0           \* preview: null
NoRecorder == 0         \* mediaRecorderRef.current === null

Max(a, b) == IF a >= b THEN a ELSE b
Min(a, b) == IF a <= b THEN a ELSE b

NoMessage == [from |-> "none", content |-> <<>>, attachments |-> <<>>]

NoEvent ==
    [op |-> "none", files |-> <<>>, upload |-> 0, status |-> 0, body |-> "none", id |-> 0,
     draft |-> <<>>, message |-> NoMessage, history |-> <<>>]

initialChatState ==
    [status |-> "idle", text |-> Null, prevText |-> Null, timestamp |-> 0]

getTimestampNs == now * TickNs

-----------------------------------------------------------------------------
(* Chat Status Tracker *)

\* Variants of the hooks updater with a slip in it
updateChatState_strictGuard(prev, upd, clock) ==
    LET newTimestamp == IF upd.timestamp = NoTimestamp THEN clock ELSE upd.timestamp
        newText == IF upd.text = Absent THEN prev.text ELSE upd.text
        newStatus == IF upd.status = Absent THEN prev.status ELSE upd.status
    IN  IF prev.timestamp < newTimestamp
        THEN [timestamp |-> newTimestamp, text |-> newText,
              prevText |-> prev.text, status |-> newStatus]
        ELSE prev

updateChatState_noGuard(prev, upd, clock) ==
    LET newTimestamp == IF upd.timestamp = NoTimestamp THEN clock ELSE upd.timestamp
        newText == IF upd.text = Absent THEN prev.text ELSE upd.text
        newStatus == IF upd.status = Absent THEN prev.status ELSE upd.status
    IN  [timestamp |-> newTimestamp, text |-> newText,
         prevText |-> prev.text, status |-> newStatus]

updateChatState_resetOmitted(prev, upd, clock) ==
    LET newTimestamp == IF upd.timestamp = NoTimestamp THEN clock ELSE upd.timestamp
        newText == IF upd.text = Absent THEN Null ELSE upd.text
        newStatus == IF upd.status = Absent THEN prev.status ELSE upd.status
    IN  IF prev.timestamp <= newTimestamp
        THEN [timestamp |-> newTimestamp, text |-> newText,
              prevText |-> prev.text, status |-> newStatus]
        ELSE prev

\* hooks/useChatState.js: the updater passed to setChatState
useChatState_updateChatState(prev, upd, clock) ==
    LET newTimestamp == IF upd.timestamp = NoTimestamp THEN clock ELSE upd.timestamp
        newText == IF upd.text = Absent THEN prev.text ELSE upd.text
        newStatus == IF upd.status = Absent THEN prev.status ELSE upd.status
    IN  IF prev.timestamp <= newTimestamp
        THEN [timestamp |-> newTimestamp, text |-> newText,
              prevText |-> prev.text, status |-> newStatus]
        ELSE prev

\* Chat.js: the updater passed to setChatState
Chat_updateChatState(prev, upd, clock) ==
    LET timestamp == IF upd.timestamp = NoTimestamp THEN clock ELSE upd.timestamp
        text == IF upd.text = Absent THEN prev.text ELSE upd.text
        prevText == IF upd.text = Absent THEN prev.prevText ELSE prev.text
        status == IF upd.status = Absent THEN prev.status ELSE upd.status
    IN  IF prev.timestamp <= timestamp
        THEN [timestamp |-> timestamp, text |-> text,
              prevText |-> prevText, status |-> status]
        ELSE prev

updateChatState(prev, upd) ==
    IF impl = "hooks"
    THEN useChatState_updateChatState(prev, upd, getTimestampNs)
    ELSE Chat_updateChatState(prev, upd, getTimestampNs)

Update(text, status, timestamp) ==
    [text |-> text, status |-> status, timestamp |-> timestamp]

-----------------------------------------------------------------------------
(* Inputs *)

PushTexts == {Absent, Null, "Thinking..."}
PushStatuses == {Absent, "loading"}
PushTimestamps == {NoTimestamp} \cup (0..MaxPushTs)

Payloads ==
    [text : PushTexts, status : PushStatuses, timestamp : PushTimestamps]

-----------------------------------------------------------------------------
(* Notification registry *)

\* uuidv4(): an id no earlier call has returned
uuidv4 == uuids + 1

\* setNotifications((prev) => [...prev, {id: uuidv4(), content: message}])
addNotification(prev, message) == Append(prev, [id |-> uuidv4, content |-> message])

Contents(list) == [i \in 1..Len(list) |-> list[i].content]

\* Variant that compares ids by order
removeNotification_upToId(prev, id) ==
    SelectSeq(prev, LAMBDA notification : notification.id > id)

\* setNotifications((prev) => prev.filter((notification) => notification.id !== id))
removeNotification(prev, id) ==
    SelectSeq(prev, LAMBDA notification : notification.id # id)

\* What callers notify
NotificationMessages == {"n", "m"}

-----------------------------------------------------------------------------
(* Initial state *)

Init ==
    /\ impl \in {"hooks", "Chat"}
    /\ now = 0
    /\ chatState = initialChatState
    /\ hist = <<>>
    /\ beforeWinner = initialChatState
    /\ notifications = <<>>
    /\ attachedFiles = <<>>
    /\ uploads = <<>>
    /\ timers = <<>>
    /\ handles = <<>>
    /\ event = NoEvent
    /\ sends = <<>>
    /\ activating = "none"
    /\ finalBy = 0
    /\ recordingState = [status |-> "off"]
    /\ recordings = <<>>
    /\ mediaRecorderRef = NoRecorder
    /\ inputValue = <<>>
    /\ messages = <<>>
    /\ isWaitingAnswer = FALSE
    /\ uuids = 0
    /\ mounted = TRUE
    /\ subscriptions = [process_message |-> 1,
                        show_notification |-> IF impl = "Chat" THEN 1 ELSE 0]
    /\ historyCall = "get_history"
    /\ callbacks = <<>>

-----------------------------------------------------------------------------
(* Clock *)

Tick ==
    /\ now < MaxTime
    /\ now' = now + 1
    /\ event' = NoEvent
    /\ UNCHANGED <<recordingVars, inputVars>>
    /\ UNCHANGED <<impl, chatState, hist, beforeWinner, notifications, attachedFiles,
                   uploads, timers, handles, sends, activating, finalBy>>
    /\ UNCHANGED sessionVars
    /\ UNCHANGED uuids

-----------------------------------------------------------------------------
(* Session root: inbound push {type: 'action', name: 'set_chat_status'} *)

MaxTsOf(h) ==
    LET RECURSIVE M(_)
        M(i) == IF i = 0 THEN 0 ELSE Max(h[i].timestamp, M(i - 1))
    IN  M(Len(h))

\* The handler forwards the payload to updateChatState.  The history
\* variables record the call with its resolved timestamp.
OnSetChatStatusRecorded(payload) ==
    LET ts == IF payload.timestamp = NoTimestamp THEN getTimestampNs ELSE payload.timestamp
    IN  /\ Len(hist) < MaxCalls
        /\ chatState' = updateChatState(chatState, payload)
        /\ hist' = Append(hist, [text |-> payload.text, status |-> payload.status,
                                  timestamp |-> ts,
                                  explicit |-> payload.timestamp # NoTimestamp])
        /\ beforeWinner' = IF ts >= MaxTsOf(hist) THEN chatState ELSE beforeWinner
        /\ UNCHANGED <<recordingVars, inputVars>>
        /\ UNCHANGED <<impl, now, notifications, attachedFiles, uploads, timers,
                       handles, event, sends, activating, finalBy>>
        /\ UNCHANGED sessionVars
        /\ UNCHANGED uuids

NextStatus ==
    \/ Tick
    \/ \E payload \in Payloads : OnSetChatStatusRecorded(payload)

SpecStatus == Init /\ [][NextStatus]_vars

-----------------------------------------------------------------------------
(* Properties of the Chat Status Tracker, checked under SpecStatus *)

CallMade == Len(hist') > Len(hist)
LastCall == hist[Len(hist)]
NewCall == hist'[Len(hist')]

\* C1: a call commits exactly when the stored timestamp is <= the incoming
\* one (equality commits): then the stored timestamp becomes the incoming one
\* and the supplied fields are stored; otherwise text, status, prevText and
\* timestamp are all left as they were.
CommitIffNotOlder ==
    [][CallMade =>
        IF chatState.timestamp <= NewCall.timestamp
        THEN /\ chatState'.timestamp = NewCall.timestamp
             /\ NewCall.text # Absent => chatState'.text = NewCall.text
             /\ NewCall.status # Absent => chatState'.status = NewCall.status
        ELSE chatState' = chatState]_vars

\* An update with timestamp 0 was committed on the initial timestamp 0, and
\* the latest call was older than the stored timestamp.
CommitIffNotOlderWitness ==
    /\ Len(hist) >= 2
    /\ hist[1].timestamp = 0 /\ hist[1].text = "Thinking..."
    /\ LastCall.timestamp < chatState.timestamp
    /\ LastCall.text = Null /\ chatState.text = "Thinking..."

LastMaxIndex(h) ==
    CHOOSE i \in 1..Len(h) :
        /\ h[i].timestamp = MaxTsOf(h)
        /\ \A j \in (i + 1)..Len(h) : h[j].timestamp < MaxTsOf(h)

AllExplicit(h) == \A i \in 1..Len(h) : h[i].explicit

MergeResult ==
    (hist # <<>> /\ AllExplicit(hist)) =>
        LET w == hist[LastMaxIndex(hist)]
        IN  /\ chatState.timestamp = MaxTsOf(hist)
            /\ chatState.text = (IF w.text = Absent THEN beforeWinner.text ELSE w.text)
            /\ chatState.status = (IF w.status = Absent THEN beforeWinner.status ELSE w.status)

\* C2: for calls with explicit timestamps in any arrival order, the stored
\* timestamp never decreases, and after the calls the stored timestamp is the
\* largest one supplied and text/status are those the (latest) call carrying
\* it produced.
MonotonicMerge ==
    /\ []MergeResult
    /\ [][chatState'.timestamp >= chatState.timestamp]_vars

\* Three explicit calls arrived out of order: the largest timestamp came
\* first, an older call was dropped, and a later call carrying the same
\* largest timestamp was committed on top of the first.
MonotonicMergeWitness ==
    /\ Len(hist) = 3 /\ AllExplicit(hist)
    /\ hist[1].timestamp = 1 /\ hist[2].timestamp = 0 /\ hist[3].timestamp = 1
    /\ hist[1].text = "Thinking..." /\ hist[2].text = Null
    /\ hist[3].text = Absent /\ hist[3].status = "loading"
    /\ chatState.text = "Thinking..." /\ chatState.status = "loading"
    /\ chatState.timestamp = 1

\* C3: whenever a call commits, with or without a text field, prevText
\* afterwards is the text that was stored just before the commit.
PrevTextIsTextBeforeCommit ==
    [][(CallMade /\ chatState.timestamp <= NewCall.timestamp) =>
        chatState'.prevText = chatState.text]_vars

\* C4: a committed call that omits text leaves the stored text unchanged and
\* one that omits status leaves the stored status unchanged.
OmittedFieldsKept ==
    [][(CallMade /\ chatState.timestamp <= NewCall.timestamp) =>
        /\ NewCall.text = Absent => chatState'.text = chatState.text
        /\ NewCall.status = Absent => chatState'.status = chatState.status]_vars

\* A committed call without text and status kept both, and a committed
\* status-only call after it kept the text.
OmittedFieldsKeptWitness ==
    /\ Len(hist) = 3
    /\ hist[1].text = "Thinking..." /\ hist[1].status = "loading"
    /\ hist[2].text = Absent /\ hist[2].status = Absent
    /\ hist[3].text = Absent /\ hist[3].status = "loading"
    /\ LastCall.timestamp = chatState.timestamp
    /\ hist[2].timestamp > hist[1].timestamp
    /\ chatState.text = "Thinking..." /\ chatState.status = "loading"

-----------------------------------------------------------------------------
(* Local files and object URLs *)

ImageExtensions ==
    {<<"j", "p", "g">>, <<"j", "p", "e", "g">>, <<"p", "n", "g">>, <<"g", "i", "f">>}

\* the /i flag of the pattern, on the letters the file names use
toLowerCase(c) ==
    CASE c = "P" -> "p" [] c = "N" -> "n" [] c = "G" -> "g" [] OTHER -> c

\* utils.js: fileName.match(/.(jpg|jpeg|png|gif)$/i); the dot is not escaped
\* and stands for any one character
isImage(fileName) ==
    \E ext \in ImageExtensions :
        /\ Len(fileName) >= Len(ext) + 1
        /\ \A k \in 1..Len(ext) :
              toLowerCase(fileName[Len(fileName) - Len(ext) + k]) = ext[k]

PngFile == [name |-> <<"a", ".", "p", "n", "g">>, type |-> "image/png", size |-> 1024]
TxtFile == [name |-> <<"b", ".", "t", "x", "t">>, type |-> "text/plain", size |-> MAX_FILE_SIZE]
BigFile == [name |-> <<"c", ".", "P", "N", "G">>, type |-> "image/png", size |-> MAX_FILE_SIZE + 1]

\* The batches onFileUpload is given: empty, one image, a file of exactly
\* MAX_FILE_SIZE followed by an image, and two with a file over the limit
Batches ==
    {<<>>, <<PngFile>>, <<TxtFile, PngFile>>, <<PngFile, BigFile>>, <<BigFile>>}

RECURSIVE MaxLen(_)
MaxLen(seqs) ==
    IF seqs = {} THEN 0
    ELSE LET q == CHOOSE x \in seqs : TRUE
         IN  Max(Len(q), MaxLen(seqs \ {q}))

MaxBatch == MaxLen(Batches)

RECURSIVE join(_, _)
join(strs, sep) ==
    IF Len(strs) = 0 THEN ""
    ELSE IF Len(strs) = 1 THEN strs[1]
    ELSE strs[1] \o sep \o join(Tail(strs), sep)

fileName(file) == join(file.name, "")

\* URL.createObjectURL, once per element of ids; ids[i] is the server id of
\* the file the URL was made for (0 when the response named none)
createObjectURLs(hs, ids) ==
    hs \o [i \in 1..Len(ids) |-> [file |-> ids[i], revoked |-> 0]]

\* URL.revokeObjectURL; revoking null releases nothing
revokeObjectURL(hs, h) ==
    IF h = NoHandle THEN hs
    ELSE [hs EXCEPT ![h].revoked = Min(@ + 1, MaxRevokeCount)]

RECURSIVE revokeEach(_, _)
revokeEach(hs, previews) ==
    IF previews = <<>> THEN hs
    ELSE revokeEach(revokeObjectURL(hs, Head(previews)), Tail(previews))

Previews(files) == [i \in 1..Len(files) |-> files[i].preview]

-----------------------------------------------------------------------------
(* Attachment Store *)

\* useFileUpload.clearFiles: revokes the truthy previews of the attachedFiles
\* of the render that created the callback
useFileUpload_clearFiles(hs, snapshot) ==
    revokeEach(hs, SelectSeq(Previews(snapshot), LAMBDA h : h # NoHandle))

\* Chat.js clearFiles: passes every preview, null included, to revokeObjectURL
Chat_clearFiles(hs, snapshot) ==
    revokeEach(hs, Previews(snapshot))

clearFiles(hs, snapshot) ==
    IF impl = "hooks" THEN useFileUpload_clearFiles(hs, snapshot)
    ELSE Chat_clearFiles(hs, snapshot)

validFiles(files) == SelectSeq(files, LAMBDA file : file.size <= MAX_FILE_SIZE)

oversizeNotification ==
    IF impl = "hooks"
    THEN "Some files were not uploaded due to size.\nMax size: "
            \o ToString((MAX_FILE_SIZE \div 1024) \div 1024) \o " Mb."
    ELSE "Some files were not uploaded due to size.\nMax size: "
            \o ToString((MAX_FILE_SIZE \div 1024) \div 1024) \o "."

\* a request that has delivered its events
DoneRequest ==
    [files |-> <<>>, updateChatStateText |-> FALSE, callback |-> "none", phase |-> "done"]

\* xhr.send of uploadFiles: one more request in flight
uploadFiles(files, updateChatStateText, callback) ==
    Append(uploads, [files |-> files, updateChatStateText |-> updateChatStateText,
                     callback |-> callback, phase |-> "sending"])

\* A batch is turned down when filtering by size dropped a file
batchRejected_noneValid(files) ==
    Len(files) > 0 /\ Len(validFiles(files)) = 0

batchRejected(files) ==
    Len(validFiles(files)) # Len(files)

\* onFileUpload up to the xhr.send; hasFiles is FALSE when e.target.files is null
OnFileUpload(hasFiles, files) ==
    /\ IF ~hasFiles
       THEN /\ event' = NoEvent
            /\ UNCHANGED <<notifications, uploads>>
       ELSE /\ event' = [NoEvent EXCEPT !.op = "onFileUpload", !.files = files]
            /\ IF batchRejected(files)
               THEN /\ Len(notifications) < MaxNotifications
                    /\ notifications' = addNotification(notifications, oversizeNotification)
                    /\ UNCHANGED uploads
               ELSE /\ Len(uploads) < MaxUploads
                    /\ uploads' = uploadFiles(validFiles(files), TRUE, "onFileUpload")
                    /\ UNCHANGED notifications
    /\ UNCHANGED <<recordingVars, inputVars>>
    /\ UNCHANGED <<impl, now, chatState, hist, beforeWinner, attachedFiles, timers,
                   handles, sends, activating, finalBy>>
    /\ UNCHANGED sessionVars
    /\ uuids' = uuids + (Len(notifications') - Len(notifications))

\* Math.round((event.loaded / event.total) * 100)
percentComplete(loaded, total) == (200 * loaded + total) \div (2 * total)

progressText(percent) == "File uploading... (" \o ToString(percent) \o "%)"

ProgressTexts == {progressText(percentComplete(l, ProgressTotal)) : l \in 0..ProgressTotal}
FinalLines == {"Files uploaded successfully", "Failed to upload files"}

\* xhr.upload.onprogress, registered only when updateChatStateText
UploadProgress(u, lengthComputable, loaded) ==
    /\ uploads[u].phase = "sending"
    /\ uploads[u].updateChatStateText
    /\ IF lengthComputable
       THEN chatState' = updateChatState(chatState,
                Update(progressText(percentComplete(loaded, ProgressTotal)), Absent, NoTimestamp))
       ELSE UNCHANGED chatState
    /\ event' = IF lengthComputable
                THEN [NoEvent EXCEPT !.op = "progress", !.upload = u] ELSE NoEvent
    /\ UNCHANGED <<recordingVars, inputVars>>
    /\ UNCHANGED <<impl, now, hist, beforeWinner, notifications, attachedFiles, uploads,
                   timers, handles, sends, activating, finalBy>>
    /\ UNCHANGED sessionVars
    /\ UNCHANGED uuids

-----------------------------------------------------------------------------
(* Upload endpoint: POST /upload-file *)

\* ids issued by the server, one per uploaded file, all distinct
ServerIssuedId(u, i) == (u - 1) * (MaxBatch + 1) + i

\* {files: [{id, name}, ...]} in the order of the request
UploadedFiles(u) ==
    [i \in 1..Len(uploads[u].files) |->
        [id |-> ServerIssuedId(u, i), name |-> uploads[u].files[i].name]]

\* What the endpoint can answer: the status and the kind of body.
\* "files": JSON with the files list; "nofiles": JSON without a files member;
\* "garbage": not JSON.
Responses ==
    {[status |-> 200, body |-> "files"],
     [status |-> 500, body |-> "garbage"],
     [status |-> 500, body |-> "nofiles"],
     [status |-> 500, body |-> "files"]}

-----------------------------------------------------------------------------
(* Completion of an upload *)

\* the entries built by the callback of onFileUpload; handle firstHandle + i
\* is the object URL made for files[i]
newFiles(files, uploadedFiles, firstHandle) ==
    [i \in 1..Len(files) |->
        [id |-> uploadedFiles[i].id, name |-> uploadedFiles[i].name,
         preview |-> IF isImage(files[i].name) THEN firstHandle + i ELSE NoHandle,
         type |-> files[i].type]]

\* Variant that puts the new entries first
stageFiles_prepend(prevFiles, new) == new \o prevFiles

\* setAttachedFiles((prevFiles) => [...prevFiles, ...newFiles])
stageFiles(prevFiles, new) == prevFiles \o new

\* readyState 4 and the load event of one request: onreadystatechange calls
\* the callback with the body whatever the status, then onload reports it.
UploadComplete(u, resp) ==
    LET up == uploads[u]
        files == up.files
        parsed == resp.body # "garbage"
        uploadedFiles == IF resp.body = "files" THEN UploadedFiles(u) ELSE <<>>
        \* the callback throws at JSON.parse, or at uploadedFiles[index] when
        \* the body has no files and the batch is not empty
        staged == resp.body = "files" \/ (resp.body = "nofiles" /\ Len(files) = 0)
        ids == [i \in 1..Len(files) |->
                    IF resp.body = "files" THEN uploadedFiles[i].id ELSE 0]
        new == IF resp.body = "files"
               THEN newFiles(files, uploadedFiles, Len(handles)) ELSE <<>>
        uploadedNote == "Uploaded " \o join([i \in 1..Len(files) |-> fileName(files[i])], ", ")
        afterCallback == IF impl = "Chat" /\ staged
                         THEN addNotification(notifications, uploadedNote) ELSE notifications
        timestamp == getTimestampNs
        finalText == IF resp.status = 200 THEN "Files uploaded successfully"
                     ELSE "Failed to upload files"
        afterLoad == IF ~up.updateChatStateText /\ resp.status # 200
                     THEN Append(afterCallback,
                                 \* the next uuidv4() of this step
                                 [id |-> uuidv4 + (Len(afterCallback) - Len(notifications)),
                                  content |-> "Failed to upload files"])
                     ELSE afterCallback
    IN  /\ up.phase = "sending"
        /\ up.callback = "onFileUpload"
        /\ Len(afterLoad) <= MaxNotifications
        /\ uploads' = [uploads EXCEPT ![u] = DoneRequest]
        /\ event' = [NoEvent EXCEPT !.op = "load", !.upload = u, !.files = files,
                                    !.status = resp.status, !.body = resp.body]
        /\ handles' = IF parsed THEN createObjectURLs(handles, ids) ELSE handles
        /\ attachedFiles' = IF staged THEN stageFiles(attachedFiles, new) ELSE attachedFiles
        /\ notifications' = afterLoad
        /\ IF up.updateChatStateText
           THEN /\ chatState' = updateChatState(chatState, Update(finalText, Absent, timestamp))
                /\ timers' = Append(timers, [timestamp |-> timestamp + 1,
                                             due |-> now + ClearDelayTicks, upload |-> u])
                /\ finalBy' = IF chatState.timestamp <= timestamp THEN u ELSE finalBy
           ELSE UNCHANGED <<chatState, timers, finalBy>>
        /\ UNCHANGED <<recordingVars, inputVars>>
        /\ UNCHANGED <<impl, now, hist, beforeWinner, sends, activating>>
        /\ UNCHANGED sessionVars
        /\ uuids' = uuids + (Len(notifications') - Len(notifications))

\* The request fails on the network: readyState 4 with an empty body, which
\* JSON.parse rejects, and no load event
UploadNetworkError(u) ==
    /\ uploads[u].phase = "sending"
    /\ uploads[u].callback = "onFileUpload"
    /\ uploads' = [uploads EXCEPT ![u] = DoneRequest]
    /\ event' = NoEvent
    /\ UNCHANGED <<recordingVars, inputVars>>
    /\ UNCHANGED <<impl, now, chatState, hist, beforeWinner, notifications, attachedFiles,
                   timers, handles, sends, activating, finalBy>>
    /\ UNCHANGED sessionVars
    /\ UNCHANGED uuids

\* setTimeout(() => updateChatState({text: null, timestamp: timestamp + 1}), 2000)
TimerFire ==
    /\ timers # <<>>
    /\ now >= Head(timers).due
    /\ chatState' = updateChatState(chatState, Update(Null, Absent, Head(timers).timestamp))
    /\ timers' = Tail(timers)
    /\ event' = [NoEvent EXCEPT !.op = "timeout", !.upload = Head(timers).upload]
    /\ UNCHANGED <<recordingVars, inputVars>>
    /\ UNCHANGED <<impl, now, hist, beforeWinner, notifications, attachedFiles, uploads,
                   handles, sends, activating, finalBy>>
    /\ UNCHANGED sessionVars
    /\ UNCHANGED uuids

\* inbound push {type: 'action', name: 'set_chat_status', payload}
OnSetChatStatus(payload) ==
    /\ chatState' = updateChatState(chatState, payload)
    /\ event' = NoEvent
    /\ UNCHANGED <<recordingVars, inputVars>>
    /\ UNCHANGED <<impl, now, hist, beforeWinner, notifications, attachedFiles, uploads,
                   timers, handles, sends, activating, finalBy>>
    /\ UNCHANGED sessionVars
    /\ UNCHANGED uuids

-----------------------------------------------------------------------------
(* Removal and clearing *)

StagedIds == 1..(MaxUploads * (MaxBatch + 1))

IsStaged(files, fileId) == \E i \in 1..Len(files) : files[i].id = fileId

\* The ids removeAttachedFile is called with: those of the staged files (the
\* remove buttons shown) and, once more, the id removed last
RemovalIds ==
    {fileId \in StagedIds :
        \/ IsStaged(attachedFiles, fileId)
        \/ event.op = "removeAttachedFile" /\ event.id = fileId}

\* Variant of the filter that also drops the entries staged before that id
filterAttachedFiles_upToId(prev, fileId) ==
    SelectSeq(prev, LAMBDA file : file.id > fileId)

\* prev.filter(...): the entries whose id is not fileId, in their order
filterAttachedFiles(prev, fileId) ==
    SelectSeq(prev, LAMBDA file : file.id # fileId)

\* removeAttachedFile: the filter drops the entries with that id and revokes
\* their previews
RemoveAttachedFile(fileId) ==
    /\ attachedFiles' = filterAttachedFiles(attachedFiles, fileId)
    /\ handles' = revokeEach(handles,
            Previews(SelectSeq(attachedFiles, LAMBDA file : file.id = fileId)))
    /\ event' = [NoEvent EXCEPT !.op = "removeAttachedFile", !.id = fileId]
    /\ UNCHANGED <<recordingVars, inputVars>>
    /\ UNCHANGED <<impl, now, chatState, hist, beforeWinner, notifications, uploads,
                   timers, sends, activating, finalBy>>
    /\ UNCHANGED sessionVars
    /\ UNCHANGED uuids

\* Variant that puts the status back to idle as activateDialog does
ClearDialog_resetsStatus ==
    /\ messages' = <<>>
    /\ handles' = clearFiles(handles, attachedFiles)
    /\ attachedFiles' = <<>>
    /\ chatState' = updateChatState(chatState, Update(Null, "idle", NoTimestamp))
    /\ event' = [NoEvent EXCEPT !.op = "clearDialog", !.files = attachedFiles,
                                !.body = "clear_dialog"]
    /\ UNCHANGED <<recordingVars, inputValue, isWaitingAnswer>>
    /\ UNCHANGED <<impl, now, hist, beforeWinner, notifications, uploads,
                   timers, sends, activating, finalBy>>
    /\ UNCHANGED sessionVars
    /\ UNCHANGED uuids

\* clearDialog: setMessages([]), clearFiles(), then the clear_dialog call;
\* the event records the staged files it found and the call it issued
ClearDialog ==
    /\ messages' = <<>>
    /\ handles' = clearFiles(handles, attachedFiles)
    /\ attachedFiles' = <<>>
    /\ event' = [NoEvent EXCEPT !.op = "clearDialog", !.files = attachedFiles,
                                !.body = "clear_dialog"]
    /\ UNCHANGED <<recordingVars, inputValue, isWaitingAnswer>>
    /\ UNCHANGED <<impl, now, chatState, hist, beforeWinner, notifications, uploads,
                   timers, sends, activating, finalBy>>
    /\ UNCHANGED sessionVars
    /\ UNCHANGED uuids

\* activateDialog up to the activate_dialog call
ActivateDialog ==
    /\ activating = "none"
    /\ chatState' = updateChatState(chatState, Update(Null, "loading", NoTimestamp))
    /\ messages' = <<>>
    /\ handles' = clearFiles(handles, attachedFiles)
    /\ attachedFiles' = <<>>
    /\ activating' = "activate_dialog"
    /\ event' = NoEvent
    /\ UNCHANGED <<recordingVars, inputValue, isWaitingAnswer>>
    /\ UNCHANGED <<impl, now, hist, beforeWinner, notifications, uploads, timers,
                   sends, finalBy>>
    /\ UNCHANGED sessionVars
    /\ UNCHANGED uuids

\* activate_dialog resolved: getSettings is called
ActivateDialogResolved ==
    /\ activating = "activate_dialog"
    /\ activating' = "get_settings"
    /\ event' = NoEvent
    /\ UNCHANGED <<recordingVars, inputVars>>
    /\ UNCHANGED <<impl, now, chatState, hist, beforeWinner, notifications, attachedFiles,
                   uploads, timers, handles, sends, finalBy>>
    /\ UNCHANGED sessionVars
    /\ UNCHANGED uuids

\* getSettings returned: the status goes back to idle
ActivateDialogFinished ==
    /\ activating = "get_settings"
    /\ chatState' = updateChatState(chatState, Update(Null, "idle", NoTimestamp))
    /\ activating' = "none"
    /\ event' = NoEvent
    /\ UNCHANGED <<recordingVars, inputVars>>
    /\ UNCHANGED <<impl, now, hist, beforeWinner, notifications, attachedFiles, uploads,
                   timers, handles, sends, finalBy>>
    /\ UNCHANGED sessionVars
    /\ UNCHANGED uuids

\* activate_dialog rejected: nothing catches the rejection (the hooks root
\* passes no processRpcError, Chat.js has no catch), so neither getSettings
\* nor the idle update runs
ActivateDialogRejected ==
    /\ activating = "activate_dialog"
    /\ activating' = "none"
    /\ event' = NoEvent
    /\ UNCHANGED <<recordingVars, inputVars>>
    /\ UNCHANGED <<impl, now, chatState, hist, beforeWinner, notifications, attachedFiles,
                   uploads, timers, handles, sends, finalBy>>
    /\ UNCHANGED sessionVars
    /\ UNCHANGED uuids

\* get_settings rejected: the getSettings of the hooks catches and notifies,
\* and activateDialog goes on; the one of Chat.js throws into activateDialog
GetSettingsRejected ==
    /\ activating = "get_settings"
    /\ activating' = "none"
    /\ event' = NoEvent
    /\ IF impl = "hooks"
       THEN /\ Len(notifications) < MaxNotifications
            /\ notifications' = addNotification(notifications, "Error fetching settings")
            /\ chatState' = updateChatState(chatState, Update(Null, "idle", NoTimestamp))
       ELSE UNCHANGED <<notifications, chatState>>
    /\ UNCHANGED <<recordingVars, inputVars>>
    /\ UNCHANGED <<impl, now, hist, beforeWinner, attachedFiles, uploads,
                   timers, handles, sends, finalBy>>
    /\ UNCHANGED sessionVars
    /\ uuids' = uuids + (Len(notifications') - Len(notifications))

\* What get_history resolves with
HistoryMessage == [from |-> "user", content |-> <<"o">>, attachments |-> <<>>]
Histories == {<<>>, <<HistoryMessage>>}

\* get_history resolved: setMessages(history)
GetHistoryResolved(history) ==
    /\ historyCall = "get_history"
    /\ historyCall' = "none"
    /\ messages' = history
    /\ event' = [NoEvent EXCEPT !.op = "get_history", !.history = history]
    /\ UNCHANGED <<recordingVars, inputValue, isWaitingAnswer>>
    /\ UNCHANGED <<impl, now, chatState, hist, beforeWinner, notifications, attachedFiles,
                   uploads, timers, handles, sends, activating, finalBy>>
    /\ UNCHANGED <<mounted, subscriptions, callbacks>>
    /\ UNCHANGED uuids

\* What the error-reporting callback returns after it has reported:
\* nothing.  undefined is no list; it is written as a value that is not a
\* sequence of messages.
UndefinedMessages == <<[from |-> "undefined", content |-> <<>>, attachments |-> <<>>]>>

\* get_history rejected and the rejection handled by processRpcError
\* (hooks): setMessages(history) stores the callback's result; the render
\* that follows throws on messages.map and the root unmounts
GetHistoryRouted ==
    /\ impl = "hooks"
    /\ mounted
    /\ historyCall = "get_history"
    /\ historyCall' = "none"
    /\ messages' = UndefinedMessages
    /\ mounted' = FALSE
    /\ subscriptions' = [channel \in DOMAIN subscriptions |-> 0]
    /\ event' = [NoEvent EXCEPT !.op = "get_history_routed"]
    /\ UNCHANGED <<recordingVars, inputValue, isWaitingAnswer>>
    /\ UNCHANGED <<impl, now, chatState, hist, beforeWinner, notifications, attachedFiles,
                   uploads, timers, handles, sends, activating, finalBy>>
    /\ UNCHANGED callbacks
    /\ UNCHANGED uuids

\* get_history rejected: the await throws, setMessages is not called
GetHistoryRejected ==
    /\ historyCall = "get_history"
    /\ historyCall' = "none"
    /\ event' = [NoEvent EXCEPT !.op = "get_history_rejected"]
    /\ UNCHANGED <<recordingVars, inputVars>>
    /\ UNCHANGED <<impl, now, chatState, hist, beforeWinner, notifications, attachedFiles,
                   uploads, timers, handles, sends, activating, finalBy>>
    /\ UNCHANGED <<mounted, subscriptions, callbacks>>
    /\ UNCHANGED uuids

-----------------------------------------------------------------------------
(* Composer: the draft and sendMessage *)

WhiteSpace == {" ", "\n", "\t"}

RECURSIVE trimStart(_)
trimStart(str) ==
    IF str # <<>> /\ Head(str) \in WhiteSpace THEN trimStart(Tail(str)) ELSE str

RECURSIVE trimEnd(_)
trimEnd(str) ==
    IF str # <<>> /\ str[Len(str)] \in WhiteSpace
    THEN trimEnd(SubSeq(str, 1, Len(str) - 1)) ELSE str

\* String.prototype.trim
trim(str) == trimEnd(trimStart(str))

\* What is typed into the composer: nothing, a word, the word inside blanks,
\* only a blank
Drafts == {<<>>, <<"h">>, <<" ", "h", " ">>, <<" ">>}

\* handleInputChange: setInputValue(event.target.value)
HandleInputChange(value) ==
    /\ inputValue' = value
    /\ event' = NoEvent
    /\ UNCHANGED <<recordingVars, messages, isWaitingAnswer>>
    /\ UNCHANGED <<impl, now, chatState, hist, beforeWinner, notifications, attachedFiles,
                   uploads, timers, handles, sends, activating, finalBy>>
    /\ UNCHANGED sessionVars
    /\ UNCHANGED uuids

RemoveAt(seq, i) == SubSeq(seq, 1, i - 1) \o SubSeq(seq, i + 1, Len(seq))

\* Variant that looks at the draft as typed
sendBlocked_untrimmed(value) == value = <<>>

\* const message = inputValue.trim(); if (!message) return
sendBlocked(value) == trim(value) = <<>>

\* sendMessage up to the gating check; the callback works on the inputValue,
\* the attachedFiles and the clearFiles of the render it was created in.
\* The field draft of the invocation is history: the draft as it was typed.
SendMessage ==
    /\ event' = [NoEvent EXCEPT !.op = "sendMessage", !.draft = inputValue]
    /\ IF sendBlocked(inputValue)
       THEN UNCHANGED <<sends, inputValue, isWaitingAnswer>>
       ELSE /\ Len(sends) < MaxSends
            /\ sends' = Append(sends, [phase |-> "gating", snapshot |-> attachedFiles,
                                        message |-> trim(inputValue), draft |-> inputValue])
            /\ isWaitingAnswer' = TRUE
            /\ inputValue' = <<>>
    /\ UNCHANGED <<recordingVars, messages>>
    /\ UNCHANGED <<impl, now, chatState, hist, beforeWinner, notifications, attachedFiles,
                   uploads, timers, handles, activating, finalBy>>
    /\ UNCHANGED sessionVars
    /\ UNCHANGED uuids

\* What the trace request of needToTurnOnVPN yields: the loc= value, or
\* Absent when the request or the match fails
Locations == {"RU", "DE", Absent}

\* The ways the trace request fails: the fetch is rejected (Absent), or the
\* text has no loc= token and match(...)[1] throws (Null)
GatingFailures == {Absent, Null}

\* String(err) of the failure the catch gets
gatingError(location) ==
    IF location = Absent THEN "TypeError: Failed to fetch"
    ELSE "TypeError: Cannot read properties of null"

\* Variant that treats a failed check as gated
needToTurnOnVPN_failClosed(location) == location = "RU" \/ location \in GatingFailures

\* return location === 'RU', where location is what the promise chain
\* yields: the loc= value, or the catch's result after a failure
needToTurnOnVPN(location) == location = "RU"

preparedMessage(message, files) ==
    [from |-> "user", content |-> message,
     attachments |-> [i \in 1..Len(files) |-> files[i].id]]

\* needToTurnOnVPN resolved: gated sends put the message back and stop here,
\* the others append the message and issue process_message; the event
\* records the draft as it was typed and the envelope passed to the call
SendGatingChecked(i, location) ==
    LET checked == IF location \in GatingFailures
                   THEN addNotification(notifications, gatingError(location))
                   ELSE notifications
    IN  /\ sends[i].phase = "gating"
        /\ IF needToTurnOnVPN(location)
           THEN /\ Len(notifications) < MaxNotifications
                /\ notifications' = addNotification(notifications, "You need to turn on VPN")
                /\ inputValue' = sends[i].message
                /\ isWaitingAnswer' = FALSE
                /\ sends' = RemoveAt(sends, i)
                /\ event' = [NoEvent EXCEPT !.op = "gated", !.draft = sends[i].draft,
                                !.body = location]
                /\ UNCHANGED messages
           ELSE /\ Len(checked) <= MaxNotifications
                /\ Len(messages) < MaxMessages
                /\ notifications' = checked
                /\ messages' = Append(messages,
                        preparedMessage(sends[i].message, sends[i].snapshot))
                /\ sends' = [sends EXCEPT ![i].phase = "process_message"]
                /\ event' = [NoEvent EXCEPT !.op = "process_message",
                        !.draft = sends[i].draft, !.body = location,
                        !.message = preparedMessage(sends[i].message, sends[i].snapshot)]
                /\ UNCHANGED <<inputValue, isWaitingAnswer>>
        /\ UNCHANGED recordingVars
        /\ UNCHANGED <<impl, now, chatState, hist, beforeWinner, attachedFiles, uploads,
                       timers, handles, activating, finalBy>>
        /\ UNCHANGED sessionVars
        /\ uuids' = uuids + (Len(notifications') - Len(notifications))

\* process_message resolved: clearFiles() of the snapshot, waiting flag off;
\* the event records the staged set that setAttachedFiles([]) discards and
\* the envelope the call was given
SendSettled(i) ==
    /\ sends[i].phase = "process_message"
    /\ handles' = clearFiles(handles, sends[i].snapshot)
    /\ attachedFiles' = <<>>
    /\ isWaitingAnswer' = FALSE
    /\ sends' = RemoveAt(sends, i)
    /\ event' = [NoEvent EXCEPT !.op = "process_message_settled", !.files = attachedFiles,
                    !.message = preparedMessage(sends[i].message, sends[i].snapshot)]
    /\ UNCHANGED <<recordingVars, inputValue, messages>>
    /\ UNCHANGED <<impl, now, chatState, hist, beforeWinner, notifications, uploads,
                   timers, activating, finalBy>>
    /\ UNCHANGED sessionVars
    /\ UNCHANGED uuids

\* Variant that rolls the optimistic append back and restores the draft
SendRejected_rollsBack(i) ==
    /\ sends[i].phase = "process_message"
    /\ sends' = RemoveAt(sends, i)
    /\ event' = [NoEvent EXCEPT !.op = "process_message_rejected",
                    !.draft = sends[i].draft,
                    !.message = preparedMessage(sends[i].message, sends[i].snapshot)]
    /\ messages' = SelectSeq(messages, LAMBDA m :
                        m # preparedMessage(sends[i].message, sends[i].snapshot))
    /\ inputValue' = sends[i].message
    /\ UNCHANGED <<recordingVars, isWaitingAnswer>>
    /\ UNCHANGED <<impl, now, chatState, hist, beforeWinner, notifications, attachedFiles,
                   uploads, timers, handles, activating, finalBy>>
    /\ UNCHANGED sessionVars
    /\ UNCHANGED uuids

\* process_message rejected: nothing catches the rejection (the hooks root
\* passes no processRpcError, so .catch(undefined) lets it through; Chat.js
\* has no catch), the await throws and the rest of sendMessage does not run
SendRejected(i) ==
    /\ sends[i].phase = "process_message"
    /\ sends' = RemoveAt(sends, i)
    /\ event' = [NoEvent EXCEPT !.op = "process_message_rejected",
                    !.draft = sends[i].draft,
                    !.message = preparedMessage(sends[i].message, sends[i].snapshot)]
    /\ UNCHANGED <<recordingVars, inputVars>>
    /\ UNCHANGED <<impl, now, chatState, hist, beforeWinner, notifications, attachedFiles,
                   uploads, timers, handles, activating, finalBy>>
    /\ UNCHANGED sessionVars
    /\ UNCHANGED uuids

\* The texts of the prompts in the header's menu
PromptTexts == {<<"p">>}

\* Header: insertText(prompt.text), which is setInputValue; the menu is
\* not disabled while a send is in flight
InsertText(text) ==
    /\ inputValue' = text
    /\ event' = [NoEvent EXCEPT !.op = "insertText", !.draft = text]
    /\ UNCHANGED <<recordingVars, messages, isWaitingAnswer>>
    /\ UNCHANGED <<impl, now, chatState, hist, beforeWinner, notifications, attachedFiles,
                   uploads, timers, handles, sends, activating, finalBy>>
    /\ UNCHANGED sessionVars
    /\ UNCHANGED uuids

\* isLoading of the footer: the textarea is disabled while it holds
isLoading == isWaitingAnswer \/ chatState.status = "loading"

\* A change event of the textarea
Typing(value) ==
    /\ ~isLoading
    /\ HandleInputChange(value)

-----------------------------------------------------------------------------
(* Composer: callButtonCallback *)

\* What process_message settles with for a callback envelope
CallbackMessage == [from |-> "assistant", content |-> <<"r">>, attachments |-> <<>>]
CallbackOutcomes == {"message", "null", "rejected"}

\* The payload a button of a message carries
CallbackPayload == "yes"

\* Variant of the envelope that also carries the draft and the staged ids
callbackEnvelope_withDraft(draft, staged) ==
    preparedMessage(trim(draft), staged)

\* {from: 'user', body: {callback: callbackPayload}}: the body has neither
\* content nor attachments; the payload travels beside it
callbackEnvelope(draft, staged) ==
    [from |-> "user", content |-> <<>>, attachments |-> <<>>]

\* callButtonCallback up to its first await on the network: the hooks set
\* the status to loading and issue process_message, Chat.js sets the waiting
\* flag and asks needToTurnOnVPN
CallButtonCallback ==
    /\ Len(callbacks) < MaxCallbacks
    /\ IF impl = "hooks"
       THEN /\ chatState' = updateChatState(chatState, Update(Absent, "loading", NoTimestamp))
            /\ callbacks' = Append(callbacks, [phase |-> "process_message"])
            /\ event' = [NoEvent EXCEPT !.op = "callback_issued", !.body = CallbackPayload,
                            !.message = callbackEnvelope(inputValue, attachedFiles)]
            /\ UNCHANGED isWaitingAnswer
       ELSE /\ isWaitingAnswer' = TRUE
            /\ callbacks' = Append(callbacks, [phase |-> "gating"])
            /\ event' = NoEvent
            /\ UNCHANGED chatState
    /\ UNCHANGED <<recordingVars, inputValue, messages>>
    /\ UNCHANGED <<impl, now, hist, beforeWinner, notifications, attachedFiles,
                   uploads, timers, handles, sends, activating, finalBy>>
    /\ UNCHANGED <<mounted, subscriptions, historyCall>>
    /\ UNCHANGED uuids

\* Chat.js: needToTurnOnVPN resolved
CallbackGatingChecked(i, location) ==
    /\ callbacks[i].phase = "gating"
    /\ IF needToTurnOnVPN(location)
       THEN /\ Len(notifications) < MaxNotifications
            /\ notifications' = addNotification(notifications, "You need to turn on VPN")
            /\ isWaitingAnswer' = FALSE
            /\ callbacks' = RemoveAt(callbacks, i)
            /\ event' = [NoEvent EXCEPT !.op = "callback_finished"]
       ELSE /\ callbacks' = [callbacks EXCEPT ![i].phase = "process_message"]
            /\ event' = [NoEvent EXCEPT !.op = "callback_issued", !.body = CallbackPayload,
                            !.message = callbackEnvelope(inputValue, attachedFiles)]
            /\ UNCHANGED <<notifications, isWaitingAnswer>>
    /\ UNCHANGED <<recordingVars, inputValue, messages>>
    /\ UNCHANGED <<impl, now, chatState, hist, beforeWinner, attachedFiles,
                   uploads, timers, handles, sends, activating, finalBy>>
    /\ UNCHANGED <<mounted, subscriptions, historyCall>>
    /\ uuids' = uuids + (Len(notifications') - Len(notifications))

\* process_message settled.  hooks: a returned message is appended, a
\* rejection is caught and notified, and the status is set to idle.
\* Chat.js: a returned message is appended and the waiting flag reset; a
\* rejection throws out of the callback.
CallbackSettled(i, outcome) ==
    /\ callbacks[i].phase = "process_message"
    /\ callbacks' = RemoveAt(callbacks, i)
    /\ event' = [NoEvent EXCEPT !.op = "callback_finished", !.body = outcome]
    /\ IF outcome = "message"
       THEN /\ Len(messages) < MaxMessages
            /\ messages' = Append(messages, CallbackMessage)
       ELSE UNCHANGED messages
    /\ IF impl = "hooks"
       THEN /\ IF outcome = "rejected"
               THEN /\ Len(notifications) < MaxNotifications
                    /\ notifications' = addNotification(notifications,
                            "Error processing callback")
               ELSE UNCHANGED notifications
            /\ chatState' = updateChatState(chatState, Update(Absent, "idle", NoTimestamp))
            /\ UNCHANGED isWaitingAnswer
       ELSE /\ isWaitingAnswer' = IF outcome = "rejected" THEN isWaitingAnswer ELSE FALSE
            /\ UNCHANGED <<notifications, chatState>>
    /\ UNCHANGED <<recordingVars, inputValue>>
    /\ UNCHANGED <<impl, now, hist, beforeWinner, attachedFiles,
                   uploads, timers, handles, sends, activating, finalBy>>
    /\ UNCHANGED <<mounted, subscriptions, historyCall>>
    /\ uuids' = uuids + (Len(notifications') - Len(notifications))

-----------------------------------------------------------------------------
(* Voice Recorder *)

\* new File([blob], `recording_${Date.now()}.webm`, {type: blob.type})
AudioFile ==
    [name |-> <<"r", ".", "w", "e", "b", "m">>, type |-> "audio/webm", size |-> 2048]

\* an invocation that has nothing left to run: finished, denied, or stopped
\* by an exception in the upload callback
DoneRecording == [phase |-> "done", inputValue |-> <<>>, upload |-> 0]

\* Variant of the status check that only turns down a running recording
startRecordingAllowed_notOn(status) == status # "on"

\* if (recordingState.status !== 'off') return
startRecordingAllowed(status) == status = "off"

\* startRecording up to the getUserMedia call.  The callback keeps the
\* inputValue of the render it was created in.
StartRecording ==
    /\ event' = [NoEvent EXCEPT !.op = "startRecording"]
    /\ IF startRecordingAllowed(recordingState.status)
       THEN /\ Len(recordings) < MaxRecordings
            /\ recordings' = Append(recordings,
                    [phase |-> "getUserMedia", inputValue |-> inputValue, upload |-> 0])
       ELSE UNCHANGED recordings
    /\ UNCHANGED <<recordingState, mediaRecorderRef, inputVars>>
    /\ UNCHANGED <<impl, now, chatState, hist, beforeWinner, notifications, attachedFiles,
                   uploads, timers, handles, sends, activating, finalBy>>
    /\ UNCHANGED sessionVars
    /\ UNCHANGED uuids

\* Variant whose catch also reports the failure in the status line
GetUserMediaSettled_denialInStatusLine(r, granted) ==
    /\ recordings[r].phase = "getUserMedia"
    /\ event' = [NoEvent EXCEPT !.op = "getUserMedia", !.id = r,
                    !.body = IF granted THEN "granted" ELSE "denied"]
    /\ IF granted
       THEN /\ recordingState' = [status |-> "on"]
            /\ chatState' = IF impl = "Chat"
                             THEN updateChatState(chatState,
                                      Update("Recording...", Absent, getTimestampNs))
                             ELSE chatState
            /\ mediaRecorderRef' = r
            /\ recordings' = [recordings EXCEPT ![r].phase = "recording"]
            /\ UNCHANGED notifications
       ELSE /\ Len(notifications) < MaxNotifications
            /\ notifications' = addNotification(notifications,
                    "Error accessing microphone: Permission denied")
            /\ chatState' = updateChatState(chatState,
                    Update("Error accessing microphone", Absent, getTimestampNs))
            /\ recordings' = [recordings EXCEPT ![r] = DoneRecording]
            /\ UNCHANGED <<recordingState, mediaRecorderRef>>
    /\ UNCHANGED inputVars
    /\ UNCHANGED <<impl, now, hist, beforeWinner, attachedFiles, uploads, timers,
                   handles, sends, activating, finalBy>>
    /\ UNCHANGED sessionVars
    /\ uuids' = uuids + (Len(notifications') - Len(notifications))

\* getUserMedia settled.  Granted: the state goes to 'on' (Chat.js also
\* writes 'Recording...'), a MediaRecorder is created on the stream, stored
\* in the ref and started.  Denied: a notification, and the invocation ends.
GetUserMediaSettled(r, granted) ==
    /\ recordings[r].phase = "getUserMedia"
    /\ event' = [NoEvent EXCEPT !.op = "getUserMedia", !.id = r,
                    !.body = IF granted THEN "granted" ELSE "denied"]
    /\ IF granted
       THEN /\ recordingState' = [status |-> "on"]
            /\ chatState' = IF impl = "Chat"
                             THEN updateChatState(chatState,
                                      Update("Recording...", Absent, getTimestampNs))
                             ELSE chatState
            /\ mediaRecorderRef' = r
            /\ recordings' = [recordings EXCEPT ![r].phase = "recording"]
            /\ UNCHANGED notifications
       ELSE /\ Len(notifications) < MaxNotifications
            /\ notifications' = addNotification(notifications,
                    "Error accessing microphone: Permission denied")
            /\ recordings' = [recordings EXCEPT ![r] = DoneRecording]
            /\ UNCHANGED <<recordingState, chatState, mediaRecorderRef>>
    /\ UNCHANGED inputVars
    /\ UNCHANGED <<impl, now, hist, beforeWinner, attachedFiles, uploads, timers,
                   handles, sends, activating, finalBy>>
    /\ UNCHANGED sessionVars
    /\ uuids' = uuids + (Len(notifications') - Len(notifications))

\* Variant of the check that stops whatever recorder the ref holds unless
\* one is being processed
stopRecordingAllowed_notProcessing(ref, status) ==
    ref # NoRecorder /\ status # "processing"

\* mediaRecorderRef.current && recordingState.status === 'on'
stopRecordingAllowed(ref, status) == ref # NoRecorder /\ status = "on"

\* stopRecording: stop() on the recorder of the ref (nothing happens when
\* that recorder is inactive already), or the notification
StopRecording ==
    /\ event' = [NoEvent EXCEPT !.op = "stopRecording"]
    /\ IF stopRecordingAllowed(mediaRecorderRef, recordingState.status)
       THEN /\ recordings' =
                    IF recordings[mediaRecorderRef].phase = "recording"
                    THEN [recordings EXCEPT ![mediaRecorderRef].phase = "stopping"]
                    ELSE recordings
            /\ UNCHANGED notifications
       ELSE /\ Len(notifications) < MaxNotifications
            /\ notifications' = addNotification(notifications, "Not currently recording.")
            /\ UNCHANGED recordings
    /\ UNCHANGED <<recordingState, mediaRecorderRef, inputVars>>
    /\ UNCHANGED <<impl, now, chatState, hist, beforeWinner, attachedFiles, uploads,
                   timers, handles, sends, activating, finalBy>>
    /\ UNCHANGED sessionVars
    /\ uuids' = uuids + (Len(notifications') - Len(notifications))

\* mediaRecorder.onstop: the state goes to 'processing' (Chat.js also writes
\* 'Uploading audio...'), the tracks are stopped and the audio is uploaded
MediaRecorderOnStop(r) ==
    /\ recordings[r].phase = "stopping"
    /\ Len(uploads) < MaxUploads
    /\ event' = [NoEvent EXCEPT !.op = "onstop", !.id = r]
    /\ recordingState' = [status |-> "processing"]
    /\ chatState' = IF impl = "Chat"
                     THEN updateChatState(chatState,
                              Update("Uploading audio...", Absent, getTimestampNs))
                     ELSE chatState
    /\ uploads' = uploadFiles(<<AudioFile>>, FALSE, "recording")
    /\ recordings' = [recordings EXCEPT ![r].phase = "uploading",
                                         ![r].upload = Len(uploads) + 1]
    /\ UNCHANGED <<mediaRecorderRef, inputVars>>
    /\ UNCHANGED <<impl, now, hist, beforeWinner, notifications, attachedFiles, timers,
                   handles, sends, activating, finalBy>>
    /\ UNCHANGED sessionVars
    /\ UNCHANGED uuids

\* Variant whose onload takes the composer's path: final status line and
\* delayed clear instead of the notification
RecordingUploadComplete_writesStatusLine(r, resp) ==
    LET u == recordings[r].upload
        parsed == resp.body # "garbage"
        timestamp == getTimestampNs
        finalText == IF resp.status = 200 THEN "Files uploaded successfully"
                     ELSE "Failed to upload files"
        afterCallback == IF parsed
                         THEN updateChatState(chatState,
                                  Update("Processing audio...", Absent, getTimestampNs))
                         ELSE chatState
    IN  /\ recordings[r].phase = "uploading"
        /\ uploads[u].phase = "sending"
        /\ event' = [NoEvent EXCEPT !.op = "audioLoad", !.id = r, !.upload = u,
                                    !.status = resp.status, !.body = resp.body]
        /\ uploads' = [uploads EXCEPT ![u] = DoneRequest]
        /\ chatState' = updateChatState(afterCallback, Update(finalText, Absent, timestamp))
        /\ timers' = Append(timers, [timestamp |-> timestamp + 1,
                                     due |-> now + ClearDelayTicks, upload |-> u])
        /\ recordings' = IF resp.body = "files"
                          THEN [recordings EXCEPT ![r].phase = "process_audio"]
                          ELSE [recordings EXCEPT ![r] = DoneRecording]
        /\ UNCHANGED <<recordingState, mediaRecorderRef, inputVars>>
        /\ UNCHANGED <<impl, now, hist, beforeWinner, notifications, attachedFiles, handles,
                       sends, activating, finalBy>>
        /\ UNCHANGED sessionVars
        /\ UNCHANGED uuids

\* readyState 4 and the load event of the audio upload.  The callback parses
\* the body, writes 'Processing audio...' and calls process_audio with
\* uploadedFiles[0].id; it throws at JSON.parse on a body that is not JSON
\* and at uploadedFiles[0] on a body without files, and then nothing more of
\* it runs.  onload adds the notification on a status other than 200.
RecordingUploadComplete(r, resp) ==
    LET u == recordings[r].upload
        parsed == resp.body # "garbage"
        loaded == IF resp.status # 200
                  THEN addNotification(notifications, "Failed to upload files") ELSE notifications
    IN  /\ recordings[r].phase = "uploading"
        /\ uploads[u].phase = "sending"
        /\ Len(loaded) <= MaxNotifications
        /\ event' = [NoEvent EXCEPT !.op = "audioLoad", !.id = r, !.upload = u,
                                    !.status = resp.status, !.body = resp.body]
        /\ uploads' = [uploads EXCEPT ![u] = DoneRequest]
        /\ chatState' = IF parsed
                         THEN updateChatState(chatState,
                                  Update("Processing audio...", Absent, getTimestampNs))
                         ELSE chatState
        /\ recordings' = IF resp.body = "files"
                          THEN [recordings EXCEPT ![r].phase = "process_audio"]
                          ELSE [recordings EXCEPT ![r] = DoneRecording]
        /\ notifications' = loaded
        /\ UNCHANGED <<recordingState, mediaRecorderRef, inputVars>>
        /\ UNCHANGED <<impl, now, hist, beforeWinner, attachedFiles, timers, handles,
                       sends, activating, finalBy>>
        /\ UNCHANGED sessionVars
        /\ uuids' = uuids + (Len(notifications') - Len(notifications))

\* The audio upload fails on the network: readyState 4 with an empty body,
\* which JSON.parse rejects, and no load event
RecordingUploadNetworkError(r) ==
    /\ recordings[r].phase = "uploading"
    /\ uploads[recordings[r].upload].phase = "sending"
    /\ event' = [NoEvent EXCEPT !.op = "audioError", !.id = r]
    /\ uploads' = [uploads EXCEPT ![recordings[r].upload] = DoneRequest]
    /\ recordings' = [recordings EXCEPT ![r] = DoneRecording]
    /\ UNCHANGED <<recordingState, mediaRecorderRef, inputVars>>
    /\ UNCHANGED <<impl, now, chatState, hist, beforeWinner, notifications, attachedFiles,
                   timers, handles, sends, activating, finalBy>>
    /\ UNCHANGED sessionVars
    /\ UNCHANGED uuids

\* What process_audio resolves with: the transcription or a reported error
Transcription == <<"t">>
ProcessAudioResults ==
    {[error |-> Absent, text |-> Transcription],
     [error |-> "Transcription failed", text |-> <<>>]}

\* Variant that writes the draft whatever the result says
draftAfterProcessAudio_always(captured, current, result) ==
    IF captured # <<>> THEN captured \o <<"\n", "\n">> \o Transcription
    ELSE Transcription

\* setInputValue(inputValue ? `${inputValue}\n\n${result.text}` : result.text)
\* unless result.error; inputValue is the one the callback was created with
draftAfterProcessAudio(captured, current, result) ==
    IF result.error # Absent THEN current
    ELSE IF captured # <<>> THEN captured \o <<"\n", "\n">> \o result.text
    ELSE result.text

\* process_audio resolved: the state goes to 'off', the status line is
\* cleared, then the error is notified or the draft is written
ProcessAudioResolved(r, result) ==
    /\ recordings[r].phase = "process_audio"
    /\ event' = [NoEvent EXCEPT !.op = "process_audio", !.id = r,
                                !.body = IF result.error # Absent THEN "error" ELSE "text",
                                !.draft = recordings[r].inputValue]
    /\ recordingState' = [status |-> "off"]
    /\ chatState' = updateChatState(chatState, Update(Null, Absent, getTimestampNs))
    /\ IF result.error # Absent
       THEN /\ Len(notifications) < MaxNotifications
            /\ notifications' = addNotification(notifications, result.error)
       ELSE UNCHANGED notifications
    /\ inputValue' = draftAfterProcessAudio(recordings[r].inputValue, inputValue, result)
    /\ recordings' = [recordings EXCEPT ![r] = DoneRecording]
    /\ UNCHANGED <<mediaRecorderRef, messages, isWaitingAnswer>>
    /\ UNCHANGED <<impl, now, hist, beforeWinner, attachedFiles, uploads, timers,
                   handles, sends, activating, finalBy>>
    /\ UNCHANGED sessionVars
    /\ uuids' = uuids + (Len(notifications') - Len(notifications))

\* process_audio rejected: the await throws and the rest of the callback
\* does not run
ProcessAudioRejected(r) ==
    /\ recordings[r].phase = "process_audio"
    /\ event' = [NoEvent EXCEPT !.op = "process_audio", !.id = r, !.body = "rejected"]
    /\ recordings' = [recordings EXCEPT ![r] = DoneRecording]
    /\ UNCHANGED <<recordingState, mediaRecorderRef, inputVars>>
    /\ UNCHANGED <<impl, now, chatState, hist, beforeWinner, notifications, attachedFiles,
                   uploads, timers, handles, sends, activating, finalBy>>
    /\ UNCHANGED sessionVars
    /\ UNCHANGED uuids

-----------------------------------------------------------------------------
(* Notification registry: the handlers *)

\* A call of addNotification(message)
AddNotification(message) ==
    /\ Len(notifications) < MaxNotifications
    /\ uuids < MaxIds
    /\ notifications' = addNotification(notifications, message)
    /\ uuids' = uuids + 1
    /\ event' = [NoEvent EXCEPT !.op = "addNotification", !.body = message]
    /\ UNCHANGED <<recordingVars, inputVars>>
    /\ UNCHANGED <<impl, now, chatState, hist, beforeWinner, attachedFiles,
                   uploads, timers, handles, sends, activating, finalBy>>
    /\ UNCHANGED sessionVars

\* onHide of a toast: removeNotification(id)
RemoveNotification(id) ==
    /\ notifications' = removeNotification(notifications, id)
    /\ event' = [NoEvent EXCEPT !.op = "removeNotification", !.id = id]
    /\ UNCHANGED <<recordingVars, inputVars>>
    /\ UNCHANGED <<impl, now, chatState, hist, beforeWinner, attachedFiles,
                   uploads, timers, handles, sends, activating, finalBy>>
    /\ UNCHANGED sessionVars
    /\ UNCHANGED uuids

-----------------------------------------------------------------------------
(* Session root: the push subscriptions *)

Channels == {"process_message", "show_notification"}

\* The channels the root subscribes to: Chat.js subscribes to both, the
\* hooks subscribe to process_message only
SubscribedChannels == IF impl = "Chat" THEN Channels ELSE {"process_message"}

\* Variant whose cleanup leaves the handler registered
off_keepsHandlers(subs, channel) == subs

\* rpcClient.off(channel) with no listener argument: every handler of the
\* channel is removed
off(subs, channel) == [subs EXCEPT ![channel] = 0]

\* rpcClient.on(channel, handler)
on(subs, channel) == [subs EXCEPT ![channel] = @ + 1]

\* What the server pushes as {type: 'message'}
PushMessages ==
    {[from |-> "assistant", content |-> <<"a">>, attachments |-> <<>>],
     [from |-> "assistant", content |-> <<"b">>, attachments |-> <<>>]}

\* Variant that writes the list of the render the handler was created in
appendMessage_replaceLast(prev, message) ==
    IF prev = <<>> THEN <<message>> ELSE SubSeq(prev, 1, Len(prev) - 1) \o <<message>>

\* setMessages((messages) => [...messages, message])
appendMessage(prev, message) == Append(prev, message)

RECURSIVE handledBy(_, _, _)
\* The list after n registered handlers each appended the pushed message
handledBy(n, prev, message) ==
    IF n = 0 THEN prev ELSE handledBy(n - 1, appendMessage(prev, message), message)

\* A process_message push of type 'message': every registered handler runs
OnProcessMessagePush(message) ==
    /\ Len(messages) + subscriptions["process_message"] <= MaxMessages
    /\ messages' = handledBy(subscriptions["process_message"], messages, message)
    /\ event' = [NoEvent EXCEPT !.op = "push_message", !.message = message]
    /\ UNCHANGED <<recordingVars, inputValue, isWaitingAnswer>>
    /\ UNCHANGED <<impl, now, chatState, hist, beforeWinner, notifications, attachedFiles,
                   uploads, timers, handles, sends, activating, finalBy>>
    /\ UNCHANGED sessionVars
    /\ UNCHANGED uuids

PushedNotifications == {"n"}

\* A show_notification push: every registered handler calls addNotification
OnShowNotificationPush(message) ==
    /\ Len(notifications) < MaxNotifications
    /\ subscriptions["show_notification"] <= 1
    /\ notifications' = IF subscriptions["show_notification"] = 1
                        THEN addNotification(notifications, message)
                        ELSE notifications
    /\ event' = [NoEvent EXCEPT !.op = "push_notification"]
    /\ UNCHANGED <<recordingVars, inputVars>>
    /\ UNCHANGED <<impl, now, chatState, hist, beforeWinner, attachedFiles,
                   uploads, timers, handles, sends, activating, finalBy>>
    /\ UNCHANGED sessionVars
    /\ uuids' = uuids + (Len(notifications') - Len(notifications))

\* A dependency of the subscribing effect changed (chatState,
\* userInteractionTrigger): React runs the cleanup of the previous run and
\* then the effect again, in one commit.  The extra cleanup and run of
\* React.StrictMode right after mount is the same pair of calls.
SubscribingEffectRerun ==
    /\ mounted
    /\ subscriptions' = on(off(subscriptions, "process_message"), "process_message")
    /\ event' = [NoEvent EXCEPT !.op = "effect"]
    /\ UNCHANGED <<recordingVars, inputVars>>
    /\ UNCHANGED <<impl, now, chatState, hist, beforeWinner, notifications, attachedFiles,
                   uploads, timers, handles, sends, activating, finalBy>>
    /\ UNCHANGED <<mounted, historyCall, callbacks>>
    /\ UNCHANGED uuids

RECURSIVE offAll(_, _)
offAll(subs, channels) ==
    IF channels = {} THEN subs
    ELSE LET channel == CHOOSE c \in channels : TRUE
         IN  offAll(off(subs, channel), channels \ {channel})

\* The root unmounts: the cleanup of every subscribing effect runs
Unmount ==
    /\ mounted
    /\ mounted' = FALSE
    /\ subscriptions' = offAll(subscriptions, SubscribedChannels)
    /\ event' = [NoEvent EXCEPT !.op = "unmount"]
    /\ UNCHANGED <<recordingVars, inputVars>>
    /\ UNCHANGED <<impl, now, chatState, hist, beforeWinner, notifications, attachedFiles,
                   uploads, timers, handles, sends, activating, finalBy>>
    /\ UNCHANGED <<historyCall, callbacks>>
    /\ UNCHANGED uuids

-----------------------------------------------------------------------------
(* Session root: the process_message handler as a whole *)

\* What arrives on the process_message channel: a message, the status
\* action, an action with another name, and an entry of another type
Pushes ==
    [type : {"message", "action", "event"}, name : {"set_chat_status", "reload"},
     message : {[from |-> "assistant", content |-> <<"a">>, attachments |-> <<>>]},
     payload : {Update("Thinking...", "loading", NoTimestamp), Update(Null, Absent, 1)}]

\* Variant that forwards the payload of every action
isStatusAction_anyName(push) == push.type = "action"

\* message.type === 'action' and message.name === 'set_chat_status'
isStatusAction(push) == push.type = "action" /\ push.name = "set_chat_status"

\* The handler of the process_message channel, for the one handler a
\* mounted session has registered
OnProcessMessage(push) ==
    /\ subscriptions["process_message"] = 1
    /\ event' = [NoEvent EXCEPT !.op = "push", !.message = push.message,
                    !.body = IF push.type = "action" THEN push.name ELSE push.type]
    /\ IF push.type = "message"
       THEN /\ Len(messages) < MaxMessages
            /\ messages' = appendMessage(messages, push.message)
            /\ UNCHANGED chatState
       ELSE /\ chatState' = IF isStatusAction(push)
                             THEN updateChatState(chatState, push.payload)
                             ELSE chatState
            /\ UNCHANGED messages
    /\ UNCHANGED <<recordingVars, inputValue, isWaitingAnswer>>
    /\ UNCHANGED <<impl, now, hist, beforeWinner, notifications, attachedFiles,
                   uploads, timers, handles, sends, activating, finalBy>>
    /\ UNCHANGED sessionVars
    /\ UNCHANGED uuids

-----------------------------------------------------------------------------

(* Specifications *)

\* The status line under uploads, server pushes and the clock
NextUpload ==
    \/ Tick
    \/ \E payload \in Payloads : OnSetChatStatus(payload)
    \/ OnFileUpload(TRUE, <<PngFile>>)
    \/ \E u \in 1..Len(uploads), lc \in BOOLEAN, loaded \in 1..ProgressTotal :
            UploadProgress(u, lc, loaded)
    \/ \E u \in 1..Len(uploads), resp \in Responses : UploadComplete(u, resp)
    \/ TimerFire

SpecUpload == Init /\ [][NextUpload]_vars

\* Staging: batches, upload outcomes, removal and clearing
NextFiles ==
    \/ \E hasFiles \in BOOLEAN, files \in Batches : OnFileUpload(hasFiles, files)
    \/ \E u \in 1..Len(uploads), resp \in Responses : UploadComplete(u, resp)
    \/ \E u \in 1..Len(uploads) : UploadNetworkError(u)
    \/ \E fileId \in RemovalIds : RemoveAttachedFile(fileId)
    \/ ClearDialog

SpecFiles == Init /\ [][NextFiles]_vars

\* Staging together with the handlers that clear the staged set later
\* the answers that parse: the files list with 200, no files member with 500
ParsedResponses ==
    {r \in Responses : r.body # "garbage" /\ (r.status = 200 \/ r.body = "nofiles")}

Next ==
    \/ OnFileUpload(TRUE, <<TxtFile, PngFile>>)
    \/ \E u \in 1..Len(uploads), resp \in ParsedResponses : UploadComplete(u, resp)
    \/ \E u \in 1..Len(uploads) : UploadNetworkError(u)
    \/ \E fileId \in RemovalIds : RemoveAttachedFile(fileId)
    \/ ClearDialog
    \/ ActivateDialog
    \/ ActivateDialogResolved
    \/ ActivateDialogFinished
    \/ HandleInputChange(<<"h">>)
    \/ sends = <<>> /\ SendMessage
    \/ \E i \in 1..Len(sends), location \in {"RU", "DE"} : SendGatingChecked(i, location)
    \/ \E i \in 1..Len(sends) : SendSettled(i)

Spec == Init /\ [][Next]_vars

\* The recorder under start, stop, the microphone permission, the audio
\* upload and the transcription
UserRecording ==
    \/ StartRecording
    \/ StopRecording

RecordingProgress ==
    \/ \E r \in 1..Len(recordings), granted \in BOOLEAN : GetUserMediaSettled(r, granted)
    \/ \E r \in 1..Len(recordings) : MediaRecorderOnStop(r)
    \/ \E r \in 1..Len(recordings), resp \in Responses : RecordingUploadComplete(r, resp)
    \/ \E r \in 1..Len(recordings) : RecordingUploadNetworkError(r)
    \/ \E r \in 1..Len(recordings), result \in ProcessAudioResults :
            ProcessAudioResolved(r, result)
    \/ \E r \in 1..Len(recordings) : ProcessAudioRejected(r)

NextRecording ==
    \/ UserRecording
    \/ RecordingProgress

SpecRecording == Init /\ [][NextRecording]_vars

\* The browser and the server answer: a pending permission request, stop
\* event, upload or process_audio call is settled eventually
SpecRecordingFair == SpecRecording /\ WF_vars(RecordingProgress)

\* Dictation: recordings that are transcribed, with the composer edited
\* meanwhile
NextDictation ==
    \/ \E value \in {<<>>, <<"h">>} : HandleInputChange(value)
    \/ StartRecording
    \/ StopRecording
    \/ \E r \in 1..Len(recordings) : GetUserMediaSettled(r, TRUE)
    \/ \E r \in 1..Len(recordings) : MediaRecorderOnStop(r)
    \/ \E r \in 1..Len(recordings) :
            RecordingUploadComplete(r, [status |-> 200, body |-> "files"])
    \/ \E r \in 1..Len(recordings), result \in ProcessAudioResults :
            ProcessAudioResolved(r, result)

SpecDictation == Init /\ [][NextDictation]_vars

\* The composer: typing and sending, with one batch staged
NextSend ==
    \/ uploads = <<>> /\ OnFileUpload(TRUE, <<PngFile>>)
    \/ \E u \in 1..Len(uploads) : UploadComplete(u, [status |-> 200, body |-> "files"])
    \/ \E value \in Drafts : HandleInputChange(value)
    \/ sends = <<>> /\ SendMessage
    \/ \E i \in 1..Len(sends), location \in Locations : SendGatingChecked(i, location)
    \/ \E i \in 1..Len(sends) : SendSettled(i)

SpecSend == Init /\ [][NextSend]_vars

\* The composer as the footer drives it: the textarea takes no input while
\* isLoading, and the process_message call may be rejected
NextCompose ==
    \/ uploads = <<>> /\ \E files \in {<<PngFile>>, <<TxtFile, PngFile>>} : OnFileUpload(TRUE, files)
    \/ \E u \in 1..Len(uploads) : UploadComplete(u, [status |-> 200, body |-> "files"])
    \/ \E value \in Drafts : Typing(value)
    \/ sends = <<>> /\ SendMessage
    \/ \E i \in 1..Len(sends), location \in {"RU", "DE"} : SendGatingChecked(i, location)
    \/ \E i \in 1..Len(sends) : SendSettled(i)
    \/ \E i \in 1..Len(sends) : SendRejected(i)

SpecCompose == Init /\ [][NextCompose]_vars

\* Sends started from the keyboard after a prompt was inserted
NextResend ==
    \/ \E text \in PromptTexts : InsertText(text)
    \/ Typing(<<"h">>)
    \/ SendMessage
    \/ \E i \in 1..Len(sends), location \in {"RU", "DE"} : SendGatingChecked(i, location)
    \/ \E i \in 1..Len(sends) : SendSettled(i)
    \/ \E i \in 1..Len(sends) : SendRejected(i)

SpecResend == Init /\ [][NextResend]_vars

\* Sends whose gating check may fail
NextGating ==
    \/ Typing(<<"h">>)
    \/ sends = <<>> /\ SendMessage
    \/ \E i \in 1..Len(sends), location \in Locations \cup GatingFailures :
            SendGatingChecked(i, location)
    \/ \E i \in 1..Len(sends) : SendSettled(i)
    \/ \E i \in 1..Len(sends) : SendRejected(i)
    \/ \E id \in 1..MaxIds : RemoveNotification(id)

SpecGating == Init /\ [][NextGating]_vars

\* The inbound pushes and the life of the subscriptions
NextPush ==
    \/ Tick
    \/ \E message \in PushMessages : OnProcessMessagePush(message)
    \/ \E message \in PushedNotifications : OnShowNotificationPush(message)
    \/ \E payload \in Payloads : OnSetChatStatus(payload)
    \/ SubscribingEffectRerun
    \/ Unmount

SpecPush == Init /\ [][NextPush]_vars

\* Everything the process_message channel delivers
NextInbound ==
    \/ Tick
    \/ \E push \in Pushes : OnProcessMessage(push)
    \/ SubscribingEffectRerun

SpecInbound == Init /\ [][NextInbound]_vars

\* The dialog controller next to what changes the state it touches
NextDialog ==
    \/ uploads = <<>> /\ OnFileUpload(TRUE, <<PngFile>>)
    \/ \E u \in 1..Len(uploads) : UploadComplete(u, [status |-> 200, body |-> "files"])
    \/ Typing(<<"h">>)
    \/ OnProcessMessagePush([from |-> "assistant", content |-> <<"a">>, attachments |-> <<>>])
    \/ OnSetChatStatus(Update(Absent, "loading", 1))
    \/ \E history \in Histories : GetHistoryResolved(history)
    \/ GetHistoryRejected
    \/ ActivateDialog
    \/ ActivateDialogResolved
    \/ ActivateDialogRejected
    \/ ActivateDialogFinished
    \/ GetSettingsRejected
    \/ ClearDialog

SpecDialog == Init /\ [][NextDialog]_vars

\* The history call and what arrives around it
NextHistory ==
    \/ Tick
    \/ \E message \in PushMessages : OnProcessMessagePush(message)
    \/ \E history \in Histories : GetHistoryResolved(history)
    \/ GetHistoryRejected
    \/ GetHistoryRouted
    \/ SubscribingEffectRerun

SpecHistory == Init /\ [][NextHistory]_vars

\* Message buttons, with the status pushes that arrive meanwhile
NextCallback ==
    \/ Tick
    \/ \E payload \in Payloads : OnSetChatStatus(payload)
    \/ CallButtonCallback
    \/ \E i \in 1..Len(callbacks), location \in {"RU", "DE"} : CallbackGatingChecked(i, location)
    \/ \E i \in 1..Len(callbacks), outcome \in CallbackOutcomes : CallbackSettled(i, outcome)

SpecCallback == Init /\ [][NextCallback]_vars

\* A button pressed while a draft and a staged file are there
NextButton ==
    \/ uploads = <<>> /\ OnFileUpload(TRUE, <<PngFile>>)
    \/ \E u \in 1..Len(uploads) : UploadComplete(u, [status |-> 200, body |-> "files"])
    \/ Typing(<<"h">>)
    \/ OnSetChatStatus(Update(Absent, "loading", 1))
    \/ CallButtonCallback
    \/ \E i \in 1..Len(callbacks), location \in {"RU", "DE"} : CallbackGatingChecked(i, location)
    \/ \E i \in 1..Len(callbacks), outcome \in CallbackOutcomes : CallbackSettled(i, outcome)

SpecButton == Init /\ [][NextButton]_vars

\* The notification registry: toasts added and hidden, the ids of hidden
\* toasts included
NextNotifications ==
    \/ \E message \in NotificationMessages : AddNotification(message)
    \/ \E id \in 1..MaxIds : RemoveNotification(id)

SpecNotifications == Init /\ [][NextNotifications]_vars

-----------------------------------------------------------------------------
(* Properties of uploads and the status line, checked under SpecUpload *)

\* C5: when an upload-progress handler runs after a completion handler has
\* committed its final status line, the progress text does not replace that
\* line.
ProgressKeepsFinalLine ==
    [][(event'.op = "progress" /\ finalBy # 0 /\ chatState.text \in FinalLines) =>
        chatState'.text = chatState.text]_vars

\* C6: the delayed update {text: null, timestamp: T + 1} of an upload takes
\* effect: once it has run, the final status line written by that upload is
\* not displayed any more, whatever was applied in between.
DelayedClearTakesEffect ==
    [][event'.op = "timeout" =>
        ~(chatState'.text \in FinalLines /\ finalBy = event'.upload)]_vars

-----------------------------------------------------------------------------
(* Properties of the Attachment Store, checked under SpecFiles and Spec *)

Oversized(files) == \E i \in 1..Len(files) : files[i].size > MAX_FILE_SIZE

\* C7: a batch with at least one file over 10 MiB leaves the staged set
\* unchanged, issues no upload request at all and adds exactly one oversize
\* notification.
OversizeBatchRejected ==
    [][(event'.op = "onFileUpload" /\ Oversized(event'.files)) =>
        /\ attachedFiles' = attachedFiles
        /\ uploads' = uploads
        /\ notifications' = addNotification(notifications, oversizeNotification)]_vars

\* A batch of a valid and an oversized file was turned down while files were
\* staged and a request was in flight.
OversizeBatchRejectedWitness ==
    /\ event.op = "onFileUpload" /\ event.files = <<PngFile, BigFile>>
    /\ Len(attachedFiles) > 0
    /\ \E u \in 1..Len(uploads) : uploads[u].phase = "sending"
    /\ notifications # <<>>
    /\ notifications[Len(notifications)].content = oversizeNotification

\* C8: a batch whose files are all at most 10 MiB is uploaded whole, and when
\* the upload completes the staged set is the previous one followed by one
\* entry per file of the batch, the i-th carrying the id of the i-th file of
\* the response.
ValidBatchStagedInOrder ==
    [][/\ (event'.op = "onFileUpload" /\ ~Oversized(event'.files)) =>
            /\ Len(uploads') = Len(uploads) + 1
            /\ uploads'[Len(uploads')].files = event'.files
       /\ (event'.op = "load" /\ event'.status = 200) =>
            LET n == Len(attachedFiles)
                response == UploadedFiles(event'.upload)
            IN  /\ Len(attachedFiles') = n + Len(event'.files)
                /\ SubSeq(attachedFiles', 1, n) = attachedFiles
                /\ \A i \in 1..Len(event'.files) :
                      attachedFiles'[n + i].id = response[i].id]_vars

\* The batch (file of exactly 10 MiB, image) of the second request was staged
\* behind the entry of the first.
ValidBatchStagedInOrderWitness ==
    /\ event.op = "load" /\ event.status = 200 /\ event.upload = 2
    /\ event.files = <<TxtFile, PngFile>>
    /\ Len(attachedFiles) = 3
    /\ attachedFiles[1].id = ServerIssuedId(1, 1)
    /\ attachedFiles[2].id = ServerIssuedId(2, 1)
    /\ attachedFiles[3].id = ServerIssuedId(2, 2)

\* C9: when the endpoint answers a composer-visible upload with a non-200
\* status, the staged set is unchanged and the status line reports
\* 'Failed to upload files'.
FailedUploadStagesNothing ==
    [][(event'.op = "load" /\ event'.status # 200) =>
        /\ attachedFiles' = attachedFiles
        /\ chatState'.text = "Failed to upload files"]_vars

\* C10: every object URL created by onFileUpload is revoked exactly once:
\* never twice, and never still unrevoked when its file is not staged.
PreviewHandlesReleasedOnce ==
    \A h \in 1..Len(handles) :
        /\ handles[h].revoked <= 1
        /\ handles[h].revoked = 0 =>
              \E i \in 1..Len(attachedFiles) : attachedFiles[i].id = handles[h].file

\* C11: removeAttachedFile(id) removes exactly the staged file with that id,
\* keeps the other staged files in their order and revokes the preview of the
\* removed file once (and no other handle); with an id that is not staged,
\* e.g. on a second call with the same id, nothing changes and nothing is
\* revoked.
RemoveExactlyThatFile ==
    [][event'.op = "removeAttachedFile" =>
        LET fileId == event'.id
            removed == {i \in 1..Len(attachedFiles) : attachedFiles[i].id = fileId}
            released == {attachedFiles[i].preview : i \in removed} \ {NoHandle}
        IN  /\ Cardinality(removed) <= 1
            /\ ~IsStaged(attachedFiles', fileId)
            /\ Len(attachedFiles') = Len(attachedFiles) - Cardinality(removed)
            /\ \A i \in 1..Len(attachedFiles) :
                  i \notin removed =>
                      attachedFiles'[i - Cardinality({j \in removed : j < i})] = attachedFiles[i]
            /\ Len(handles') = Len(handles)
            /\ \A h \in 1..Len(handles) :
                  handles'[h] = IF h \in released
                                THEN [handles[h] EXCEPT !.revoked = @ + 1]
                                ELSE handles[h]
            /\ removed = {} => (attachedFiles' = attachedFiles /\ handles' = handles)]_vars

\* The image in the middle of three staged files was removed: the files
\* around it stay in order and its preview is revoked once.
RemoveExactlyThatFileWitness ==
    /\ event.op = "removeAttachedFile" /\ event.id = ServerIssuedId(2, 2)
    /\ Len(attachedFiles) = 2
    /\ attachedFiles[1].id = ServerIssuedId(2, 1)
    /\ attachedFiles[2].id = ServerIssuedId(1, 1)
    /\ \E h \in 1..Len(handles) :
          handles[h].file = ServerIssuedId(2, 2) /\ handles[h].revoked = 1

-----------------------------------------------------------------------------
(* Properties of the Voice Recorder, checked under SpecRecording *)

Capturing == {r \in 1..Len(recordings) : recordings[r].phase \in {"recording", "stopping"}}

\* C12: at most one microphone capture session (a granted stream with an
\* active recorder) exists at any time, for every interleaving of
\* startRecording and stopRecording, a second startRecording during the
\* permission request of the first included.
OneCaptureSession == Cardinality(Capturing) <= 1

RecorderUntouched ==
    /\ recordingState' = recordingState
    /\ recordings' = recordings
    /\ mediaRecorderRef' = mediaRecorderRef
    /\ uploads' = uploads

\* C13: startRecording invoked while the state is 'on' or 'processing' is a
\* no-op: the state is unchanged, no microphone access is requested and no
\* recorder is created.
StartWhileBusyIsNoOp ==
    [][(event'.op = "startRecording" /\ recordingState.status \in {"on", "processing"}) =>
        /\ RecorderUntouched
        /\ notifications' = notifications
        /\ chatState' = chatState]_vars

\* startRecording was invoked during 'processing', with the first recording
\* waiting for its transcription, and no second invocation was admitted.
StartWhileBusyIsNoOpWitness ==
    /\ event.op = "startRecording"
    /\ recordingState.status = "processing"
    /\ Len(recordings) = 1 /\ recordings[1].phase = "process_audio"

\* C14: the recording state changes only off -> on, on -> processing (by the
\* stop event that a stopRecording call made while 'on' raised) and
\* processing -> off (when the process_audio call of that recording has
\* resolved).
OnlyLegalTransitions ==
    [][recordingState'.status # recordingState.status =>
        \/ recordingState.status = "off" /\ recordingState'.status = "on"
        \/ /\ recordingState.status = "on" /\ recordingState'.status = "processing"
           /\ event'.op = "onstop"
        \/ /\ recordingState.status = "processing" /\ recordingState'.status = "off"
           /\ event'.op = "process_audio"]_vars

\* C15: once the state is 'processing' it eventually returns to 'off' with
\* the status line cleared, in every terminal case (transcription, reported
\* error, failed upload, failed process_audio call).
ProcessingEndsOff ==
    (recordingState.status = "processing") ~>
        (recordingState.status = "off" /\ chatState.text = Null)

\* C16: stopRecording invoked while the state is not 'on' adds the
\* 'Not currently recording.' notification and changes neither the state nor
\* the recorder.
StopWhileNotOnNotifies ==
    [][(event'.op = "stopRecording" /\ recordingState.status # "on") =>
        /\ notifications' = addNotification(notifications, "Not currently recording.")
        /\ RecorderUntouched]_vars

\* stopRecording was invoked during 'processing', with the ref holding the
\* recorder of the recording being processed, and once before in 'off'.
StopWhileNotOnNotifiesWitness ==
    /\ event.op = "stopRecording"
    /\ recordingState.status = "processing" /\ mediaRecorderRef = 1
    /\ recordings[1].phase = "uploading"
    /\ Contents(notifications) = <<"Not currently recording.", "Not currently recording.">>

-----------------------------------------------------------------------------
(* Properties of dictation, checked under SpecDictation *)

\* C17: when the transcription succeeds with text T the draft becomes
\* D + blank line + T, or T when D is empty, D being the draft at the moment
\* the transcription resolves, edits made while recording or processing
\* included.
TranscriptionJoinsCurrentDraft ==
    [][(event'.op = "process_audio" /\ event'.body = "text") =>
        inputValue' = IF inputValue # <<>>
                      THEN inputValue \o <<"\n", "\n">> \o Transcription
                      ELSE Transcription]_vars

\* C18: when process_audio returns a reported error, the start -> stop cycle
\* ends with the state 'off', the draft unchanged and a notification
\* carrying the error.
ReportedErrorKeepsDraft ==
    [][(event'.op = "process_audio" /\ event'.body = "error") =>
        /\ recordingState'.status = "off"
        /\ inputValue' = inputValue
        /\ notifications' = addNotification(notifications, "Transcription failed")]_vars

\* A recording started on an empty composer ended with a reported error
\* after a word had been typed: the word is still the draft.
ReportedErrorKeepsDraftWitness ==
    /\ event.op = "process_audio" /\ event.body = "error"
    /\ event.draft = <<>> /\ inputValue = <<"h">>
    /\ recordingState.status = "off"
    /\ notifications # <<>>
    /\ notifications[Len(notifications)].content = "Transcription failed"

-----------------------------------------------------------------------------
(* Properties of sendMessage, checked under SpecSend *)

\* C19: when the gating check reports the gated condition, sendMessage ends
\* with the draft equal to the original draft, character for character
\* (leading and trailing whitespace included), and no process_message call.
GatedSendRestoresDraft ==
    [][event'.op = "gated" =>
        /\ inputValue' = event'.draft
        /\ messages' = messages
        /\ \A i \in 1..Len(sends') : sends'[i].phase # "process_message"]_vars

\* C20: sendMessage with a draft that trims to nothing is a no-op: draft,
\* message list, staged attachments and waiting flag are unchanged, and
\* neither the gating check nor process_message is started.
EmptySendIsNoOp ==
    [][(event'.op = "sendMessage" /\ trim(inputValue) = <<>>) =>
        /\ inputValue' = inputValue
        /\ messages' = messages
        /\ attachedFiles' = attachedFiles
        /\ isWaitingAnswer' = isWaitingAnswer
        /\ sends' = sends
        /\ notifications' = notifications]_vars

\* sendMessage was invoked on a draft of one blank, with a file staged.
EmptySendIsNoOpWitness ==
    /\ event.op = "sendMessage" /\ event.draft = <<" ">>
    /\ inputValue = <<" ">>
    /\ Len(attachedFiles) = 1
    /\ sends = <<>> /\ ~isWaitingAnswer

-----------------------------------------------------------------------------
(* Composer: the end of an ungated send *)

\* C21: when the process_message call of an ungated sendMessage settles,
\* resolved or rejected, the staged attachments are cleared and the waiting
\* flag is false.
SettledSendClearsAndStopsWaiting ==
    [][(\E i \in 1..Len(sends) :
            /\ sends[i].phase = "process_message"
            /\ sends' = RemoveAt(sends, i))
        => /\ attachedFiles' = <<>>
           /\ isWaitingAnswer' = FALSE]_vars

-----------------------------------------------------------------------------
(* Session root: inbound pushes *)

\* C22: each inbound push of type 'message' appends exactly one entry at the
\* end of the message list and leaves every earlier entry in place, so two
\* pushes in a row are both present, in arrival order.
PushAppendsExactlyOne ==
    [][event'.op = "push_message" /\ mounted
        => /\ Len(messages') = Len(messages) + 1
           /\ messages'[Len(messages')] = event'.message
           /\ SubSeq(messages', 1, Len(messages)) = messages]_vars

PushAppendsExactlyOneWitness ==
    /\ event.op = "push_message"
    /\ Len(messages) = 2
    /\ messages[1].content = <<"a">>
    /\ messages[2].content = <<"b">>

\* C24: while the session is mounted exactly one handler is registered on
\* each push channel (process_message, show_notification) and every push is
\* handled exactly once, through every re-run of the subscribing effect;
\* after unmount no handler is registered.
OneHandlerPerChannel ==
    /\ [](\A channel \in Channels :
            subscriptions[channel] = IF mounted THEN 1 ELSE 0)
    /\ [][/\ (mounted /\ event'.op = "push_message"
                => messages' = Append(messages, event'.message))
          /\ (mounted /\ event'.op = "push_notification"
                => Len(notifications') = Len(notifications) + 1)]_vars

-----------------------------------------------------------------------------
(* Dialog session controller *)

\* C23: a history load is performed on mount and after activateDialog, and
\* when get_history resolves the message list is exactly the returned
\* sequence.  The load of the mount is the one in flight in the initial
\* state.
HistoryLoadedAndReplaces ==
    [][/\ (event'.op = "get_history" => messages' = event'.history)
       /\ (activating = "get_settings" /\ activating' = "none"
            => historyCall' = "get_history")]_vars

\* C26: activateDialog sets the status to 'loading' with text null, empties
\* the message list and the staged set and then issues activate_dialog; the
\* status is 'loading' while that call is in flight; the settings refresh
\* follows the call; the status is 'idle' when activateDialog finishes.
ActivateDialogInOrder ==
    /\ [](activating = "activate_dialog" => chatState.status = "loading")
    /\ [][/\ (activating = "none" /\ activating' = "activate_dialog"
                => /\ chatState'.status = "loading"
                   /\ chatState'.text = Null
                   /\ messages' = <<>>
                   /\ attachedFiles' = <<>>)
          /\ (activating = "activate_dialog" /\ activating' # activating
                => activating' = "get_settings")
          /\ (activating # "none" /\ activating' = "none"
                => /\ activating = "get_settings"
                   /\ chatState'.status = "idle")]_vars

\* C27: clearDialog empties the message list and the staged attachments and
\* calls clear_dialog; the chat status (status, text, prevText, timestamp),
\* the draft and the waiting flag stay as they were.
ClearDialogLeavesStatusAndDraft ==
    [][event'.op = "clearDialog"
        => /\ messages' = <<>>
           /\ attachedFiles' = <<>>
           /\ event'.body = "clear_dialog"
           /\ chatState' = chatState
           /\ inputValue' = inputValue
           /\ isWaitingAnswer' = isWaitingAnswer]_vars

ClearDialogLeavesStatusAndDraftWitness ==
    /\ event.op = "clearDialog"
    /\ event.files # <<>>
    /\ chatState.status = "loading"
    /\ chatState.timestamp = 1
    /\ inputValue = <<"h">>

-----------------------------------------------------------------------------
(* Composer: message buttons *)

\* C25: callButtonCallback has set the status to 'loading' when it issues
\* its process_message call, and the status is 'idle' when it finishes,
\* whether the call returned a message, returned null or failed and
\* whatever the server pushed meanwhile.
CallbackBracketsStatus ==
    [][/\ (event'.op = "callback_issued" => chatState'.status = "loading")
       /\ (event'.op = "callback_finished" => chatState'.status = "idle")]_vars

-----------------------------------------------------------------------------
(* Notification registry *)

\* C28: addNotification appends one entry, with an id no entry of the list
\* has, at the end of the list, also when its content is already listed;
\* removeNotification(id) takes out the entry with that id, keeps the
\* others in order, and changes nothing for an id that is not listed.
NotificationsByIdentity ==
    [][/\ (event'.op = "addNotification"
            => /\ Len(notifications') = Len(notifications) + 1
               /\ SubSeq(notifications', 1, Len(notifications)) = notifications
               /\ notifications'[Len(notifications')].content = event'.body
               /\ \A i \in 1..Len(notifications) :
                        notifications[i].id # notifications'[Len(notifications')].id)
       /\ (event'.op = "removeNotification"
            => /\ \A i \in 1..Len(notifications) :
                        notifications[i].id = event'.id
                            => notifications' = RemoveAt(notifications, i)
               /\ (\A i \in 1..Len(notifications) : notifications[i].id # event'.id)
                        => notifications' = notifications)]_vars

NotificationsByIdentityWitness ==
    /\ event.op = "removeNotification"
    /\ event.id = 2
    /\ notifications = <<[id |-> 1, content |-> "n"], [id |-> 3, content |-> "n"]>>

-----------------------------------------------------------------------------
(* Attachment store: preview handles *)

\* C29: the callback of onFileUpload creates an object URL only for the
\* image files of the batch, none for the other files, and a staged entry
\* has a preview exactly when its file is an image.
PreviewHandleOnlyForImages ==
    /\ [](\A i \in 1..Len(attachedFiles) :
            attachedFiles[i].preview # NoHandle <=> isImage(attachedFiles[i].name))
    /\ [][event'.op = "load" /\ event'.body = "files"
            => Len(handles') - Len(handles) =
                 Cardinality({i \in 1..Len(event'.files) : isImage(event'.files[i].name)})]_vars

-----------------------------------------------------------------------------
(* Composer: the envelope of an ungated send *)

\* C30: when an ungated sendMessage issues process_message, the envelope it
\* passes has the trimmed draft as content and the ids of the staged files,
\* in staged order, as attachments; that envelope has just been appended to
\* the message list, and the draft is empty.
EnvelopeOfStagedFiles ==
    [][event'.op = "process_message"
        => /\ event'.message.content = trim(event'.draft)
           /\ event'.message.attachments =
                 [i \in 1..Len(attachedFiles) |-> attachedFiles[i].id]
           /\ messages' = Append(messages, event'.message)
           /\ inputValue' = <<>>]_vars

-----------------------------------------------------------------------------
(* Composer: a failed send *)

\* C31: when the process_message call of sendMessage fails, the message
\* appended before the call is still in the message list, the list is as it
\* was, and the draft is not put back.
FailedSendKeepsMessage ==
    [][event'.op = "process_message_rejected"
        => /\ messages' = messages
           /\ \E k \in 1..Len(messages') : messages'[k] = event'.message
           /\ inputValue' = inputValue]_vars

FailedSendKeepsMessageWitness ==
    /\ event.op = "process_message_rejected"
    /\ event.draft = <<" ", "h", " ">>
    /\ messages # <<>>
    /\ messages[Len(messages)].content = <<"h">>
    /\ inputValue = <<>>

-----------------------------------------------------------------------------
(* Voice recorder: the microphone is refused *)

-----------------------------------------------------------------------------
(* Voice recorder: the audio upload *)

\* C33: the upload of a recording writes no progress text and no completion
\* text to the status line, schedules no delayed clear and stages no file;
\* when it is answered with a status other than 200 a notification is added.
RecordingUploadIsSilent ==
    /\ [](/\ chatState.text \notin (ProgressTexts \cup FinalLines)
          /\ timers = <<>>
          /\ attachedFiles = <<>>)
    /\ [][event'.op = "audioLoad" /\ event'.status # 200
            => notifications' = addNotification(notifications, "Failed to upload files")]_vars

RecordingUploadIsSilentWitness ==
    /\ event.op = "audioLoad"
    /\ event.status # 200
    /\ notifications # <<>>
    /\ notifications[Len(notifications)].content = "Failed to upload files"
    /\ chatState.text \notin FinalLines
    /\ timers = <<>>

-----------------------------------------------------------------------------
(* Session root: action pushes *)

\* C34: a push of type 'action' named 'set_chat_status' puts its payload
\* through updateChatState and leaves the message list alone; a push with
\* another action name or another type changes neither the message list
\* nor the chat status.
ActionPushRouting ==
    [][event'.op = "push" /\ event'.body # "message"
        => /\ messages' = messages
           /\ IF event'.body = "set_chat_status"
              THEN \E push \in Pushes : chatState' = updateChatState(chatState, push.payload)
              ELSE chatState' = chatState]_vars

ActionPushRoutingWitness ==
    /\ event.op = "push"
    /\ event.body = "reload"
    /\ chatState.text = "Thinking..."
    /\ messages # <<>>

-----------------------------------------------------------------------------
(* Composer: button callbacks *)

\* C35: callButtonCallback sends an envelope with the callback payload and
\* neither content nor attachment ids, appends exactly one entry when the
\* call returns a message and none when it returns null or fails, and
\* changes neither the draft nor the staged attachments.
CallbackSendsOnlyPayload ==
    [][/\ event'.op = "callback_issued"
          => /\ event'.body = CallbackPayload
             /\ event'.message.content = <<>>
             /\ event'.message.attachments = <<>>
       /\ event'.op = "callback_finished"
          => IF event'.body = "message"
             THEN /\ Len(messages') = Len(messages) + 1
                  /\ SubSeq(messages', 1, Len(messages)) = messages
             ELSE messages' = messages
       /\ event'.op \in {"callback_issued", "callback_finished"}
          => /\ inputValue' = inputValue
             /\ attachedFiles' = attachedFiles]_vars

CallbackSendsOnlyPayloadWitness ==
    /\ event.op = "callback_finished"
    /\ event.body = "message"
    /\ messages = <<CallbackMessage>>
    /\ inputValue = <<"h">>
    /\ attachedFiles # <<>>

-----------------------------------------------------------------------------
(* Composer: what the clear after a send discards *)

\* C36: every staged attachment discarded by the clear at the end of
\* sendMessage had its id in the envelope of that send.
DiscardedFilesWereSent ==
    [][event'.op = "process_message_settled"
        => \A k \in 1..Len(event'.files) :
              \E j \in 1..Len(event'.message.attachments) :
                  event'.message.attachments[j] = event'.files[k].id]_vars

-----------------------------------------------------------------------------
(* Composer: the waiting flag of overlapping sends *)

\* C37: whenever a process_message call issued by sendMessage is in flight
\* the waiting flag is true, also when a second sendMessage was started
\* before the first call settled.
WaitingWhileInFlight ==
    (\E i \in 1..Len(sends) : sends[i].phase = "process_message") => isWaitingAnswer

-----------------------------------------------------------------------------
(* Dialog: pushes that arrive before the history *)

\* C38: a push message that arrived after mount and before get_history
\* resolved is still in the message list once the history is loaded.
HistoryKeepsEarlierPushes ==
    [][event'.op = "get_history"
        => \A k \in 1..Len(messages) :
              \E j \in 1..Len(messages') : messages'[j] = messages[k]]_vars

-----------------------------------------------------------------------------
(* Dialog: the message list after a failed history call *)

-----------------------------------------------------------------------------
(* Composer: a gating check that fails *)

\* C40: when the request of the gating check fails (the fetch is rejected
\* or the response has no loc token) the send is not gated: a notification
\* with the error is added, the message is appended and process_message is
\* issued.
FailedGatingCheckIsUngated ==
    [][event'.op \in {"gated", "process_message"} /\ event'.body \in GatingFailures
        => /\ event'.op = "process_message"
           /\ notifications' = addNotification(notifications, gatingError(event'.body))
           /\ messages' = Append(messages, event'.message)
           /\ \E i \in 1..Len(sends') : sends'[i].phase = "process_message"]_vars

FailedGatingCheckIsUngatedWitness ==
    /\ event.op = "process_message"
    /\ event.body = Null
    /\ notifications # <<>>
    /\ notifications[Len(notifications)].content = "TypeError: Cannot read properties of null"
    /\ messages # <<>>
    /\ messages[Len(messages)].content = <<"h">>
    /\ \E i \in 1..Len(sends) : sends[i].phase = "process_message"

====
